---- MODULE Spec2Model ----
(***************************************************************************)
(* A model of the advisor-directory extractor (src/app.py).                *)
(*                                                                         *)
(* Text is modelled as a sequence of atoms.  An atom is a run of           *)
(* characters that the program's regular expressions and string methods    *)
(* treat alike ("Jane", "123", " ", ",", "http", "/" ...).  Character      *)
(* facts about an atom (its lower-case form, whether its first character   *)
(* is a capital, its length) are tabulated below.  No two atoms of an      *)
(* input alphabet concatenate to a third, so equality of atom sequences    *)
(* is equality of the strings they spell.                                  *)
(***************************************************************************)
EXTENDS Integers, Sequences, FiniteSets, TLC

VARIABLES
    mode,        \* which part of the program the behaviour exercises
    u,           \* norm_url: the argument
    v,           \* norm_url: a second URL that differs from u in query/fragment only
    normed,      \* norm_url(u); <<"?">> before the call
    normed2,     \* norm_url(norm_url(u))
    normedV,     \* norm_url(v)
    PAGE_CACHE,  \* polite_get: _PAGE_CACHE, its entries in insertion order
    pc,          \* polite_get: "idle" between calls, "loop" inside the retry loop
    req_url,     \* polite_get: url, the argument of the running or last call
    attempt,     \* polite_get: the loop variable
    last_err,    \* polite_get: last_err
    outcome,     \* polite_get: how the last call ended and with what
    errlog,      \* polite_get: the errors of the HTTP attempts of the call, in order
    text_in,     \* classifiers: the text handed to is_valid_person_name / is_likely_role
    name_in,     \* classifiers: is_likely_role's person_name
    nameResult,  \* classifiers: what is_valid_person_name(text_in) returned
    roleResult,  \* classifiers: what is_likely_role(text_in, name_in) returned
    df_out,      \* reconciliation: the rows handed to post_process_directory
    drop_no_contact, \* reconciliation: the policy flag
    df_clean,    \* reconciliation: whether the call ran, and the rows it returned
    td_page,     \* TD extraction: the page polite_get returned
    td_out,      \* TD extraction: whether td_fetch_people ran, and what it made
    chosen,      \* build: the targets the loop has still to visit
    sleep_s,     \* polite_get: sleep_s, in quarters of a second
    slept,       \* polite_get: the time slept since the latest HTTP request was issued
    gap,         \* polite_get: the time slept before the latest HTTP request
    http_log,    \* polite_get: the HTTP requests that succeeded, in order
    ui,          \* which handler of the page is running: "idle", "discover" or "build"
    seeds,       \* Discover: the seeds pasted, each with what its fetches return
    seed_no,     \* Discover: the place in seeds of the seed the loop visits next
    dfs,         \* Discover: the rows of the tables in dfs, concatenated
    errors,      \* Discover: errors
    df_candidates,     \* st.session_state["df_candidates"]
    edited_candidates, \* st.session_state["edited_candidates"]
    errs_build,  \* st.session_state["errs_build"]
    max_targets, \* the "Max targets per run" setting
    errs,        \* Build: errs
    visited      \* Build: the targets the loop has visited, in order

urlVars == <<u, v, normed, normed2, normedV>>
fetchVars == <<PAGE_CACHE, pc, req_url, attempt, last_err, outcome, errlog>>
textVars == <<text_in, name_in, nameResult, roleResult>>
reconVars == <<df_out, drop_no_contact, df_clean>>
tdVars == <<td_page, td_out, chosen>>
politeVars == <<sleep_s, slept, gap, http_log>>
uiVars == <<ui, seeds, seed_no, dfs, errors, df_candidates, edited_candidates, errs_build,
            max_targets, errs, visited>>
vars == <<mode, urlVars, fetchVars, textVars, reconVars, tdVars, politeVars, uiVars>>

(***************************************************************************)
(* Generic sequence helpers (Python str methods on atom sequences).        *)
(***************************************************************************)

\* s.find(c, start): least 1-based index >= start holding c, 0 when absent
Find(s, c, start) ==
    LET I == {i \in start..Len(s) : s[i] = c}
    IN IF I = {} THEN 0 ELSE CHOOSE i \in I : \A j \in I : i <= j

\* s.rfind(c): greatest index holding c, 0 when absent
RFind(s, c) ==
    LET I == {i \in 1..Len(s) : s[i] = c}
    IN IF I = {} THEN 0 ELSE CHOOSE i \in I : \A j \in I : i >= j

\* c in s
Has(s, c) == \E i \in 1..Len(s) : s[i] = c

\* s[i-1:j] with 1-based inclusive bounds, clipped to the text as Python clips
Slice(s, i, j) ==
    LET lo == IF i < 1 THEN 1 ELSE i
        hi == IF j > Len(s) THEN Len(s) ELSE j
    IN IF lo > hi THEN <<>> ELSE [k \in 1..(hi - lo + 1) |-> s[lo + k - 1]]

\* s[i:] with a 1-based first index
From(s, i) == Slice(s, i, Len(s))

\* position of the first character of s that is in set C, Len(s) + 1 when none
FirstOf(s, C, start) ==
    IF \E k \in start..Len(s) : s[k] \in C
    THEN CHOOSE k \in start..Len(s) :
            s[k] \in C /\ \A j \in start..(k - 1) : s[j] \notin C
    ELSE Len(s) + 1

\* the characters of s
Range(s) == {s[i] : i \in 1..Len(s)}

\* all sequences over S of length at most n
SeqsUpTo(S, n) == UNION {[1..k -> S] : k \in 0..n}

(***************************************************************************)
(* Character tables of the atoms.                                          *)
(***************************************************************************)

\* words whose first character is a capital, with their lower-case forms
UpperWords ==
    {"Jane", "Doe", "John", "Roe", "Sarah", "Investment", "Senior", "Advisor",
     "Associate", "Main", "St", "Our", "Team", "Contact", "Us", "Additional",
     "TD", "Specialists", "Social", "Links", "Photo", "Meet", "The", "Group",
     "HTTP", "X", "JANE@X.COM", "JANE", "COM", "Alpha", "Beta"}

\* str.lower() of one atom
LowerAtom(a) ==
    CASE a = "Jane" -> "jane" [] a = "Doe" -> "doe" [] a = "John" -> "john"
      [] a = "Roe" -> "roe" [] a = "Sarah" -> "sarah"
      [] a = "Investment" -> "investment" [] a = "Senior" -> "senior"
      [] a = "Advisor" -> "advisor" [] a = "Associate" -> "associate"
      [] a = "Main" -> "main" [] a = "St" -> "st" [] a = "Our" -> "our"
      [] a = "Team" -> "team" [] a = "Contact" -> "contact" [] a = "Us" -> "us"
      [] a = "Additional" -> "additional" [] a = "TD" -> "td"
      [] a = "Specialists" -> "specialists" [] a = "Social" -> "social"
      [] a = "Links" -> "links" [] a = "Photo" -> "photo" [] a = "Meet" -> "meet"
      [] a = "The" -> "the" [] a = "Group" -> "group"
      [] a = "HTTP" -> "http" [] a = "X" -> "x"
      [] a = "Alpha" -> "alpha" [] a = "Beta" -> "beta"
      [] a = "JANE@X.COM" -> "jane@x.com"
      [] a = "JANE" -> "jane" [] a = "COM" -> "com"
      [] a = "Jane-Doe" -> "jane-doe" [] a = "View" -> "view" [] a = "Profile" -> "profile"
      [] OTHER -> a

\* str.lower() of a text
Lower(s) == [i \in 1..Len(s) |-> LowerAtom(s[i])]

\* atoms that EMAIL_RE matches: whole e-mail addresses.  In the texts of the
\* model an address stands between characters that cannot extend the match.
EmailAtoms == {"jane@x.com", "JANE@X.COM", "john@x.com", "team@x.com"}

\* runs of digits, and digit groups joined by '-' that begin and end in a digit
DigitAtoms == {"2", "123", "555-1234", "555-5678", "514-555-1234", "514-555-9999"}

\* characters \s matches
SpaceAtoms == {" ", "<nbsp>"}

\* the words of [A-Za-z]+ : every atom that is neither punctuation, space,
\* digits nor an e-mail address
Punctuation == {",", "(", ")", "-", ".", "'", ";", "|", "/", ":", "?", "#", "@", "<rsquo>"}

IsWord(a) == a \notin Punctuation \cup SpaceAtoms \cup DigitAtoms \cup EmailAtoms

\* len() of one atom
CharLen(a) ==
    CASE a \in Punctuation \cup SpaceAtoms \cup {"2", "X", "x", "a", "p", "r", "q"} -> 1
      [] a \in {"St", "st", "Us", "us", "TD", "td", "de"} -> 2
      [] a \in {"Doe", "doe", "Roe", "roe", "Our", "our", "The", "the", "123", "com", "COM"} -> 3
      [] a \in {"Jane", "jane", "John", "john", "Main", "main", "Team", "team",
                "Meet", "meet", "http", "HTTP", "JANE", "Beta", "beta"} -> 4
      [] a \in {"Sarah", "sarah", "Links", "links", "Photo", "photo", "Group",
                "group", "hello", "Hello", "Alpha", "alpha"} -> 5
      [] a \in {"Senior", "senior", "Social", "social"} -> 6
      [] a \in {"Advisor", "advisor", "Contact", "contact"} -> 7
      [] a \in {"555-1234", "555-5678"} -> 8
      [] a \in {"Associate", "associate"} -> 9
      [] a \in {"Investment", "investment", "Additional", "additional",
                "jane@x.com", "JANE@X.COM", "john@x.com", "team@x.com"} -> 10
      [] a \in {"Specialists", "specialists"} -> 11
      [] a \in {"514-555-1234", "514-555-9999"} -> 12
      [] OTHER -> 120

\* re.sub(r"\D+", "", a): the digits of one atom, one character each
DigitsOfAtom(a) ==
    CASE a = "2" -> <<"2">>
      [] a = "123" -> <<"1", "2", "3">>
      [] a = "555-1234" -> <<"5", "5", "5", "1", "2", "3", "4">>
      [] a = "555-5678" -> <<"5", "5", "5", "5", "6", "7", "8">>
      [] a = "514-555-1234" -> <<"5", "1", "4", "5", "5", "5", "1", "2", "3", "4">>
      [] a = "514-555-9999" -> <<"5", "1", "4", "5", "5", "5", "9", "9", "9", "9">>
      [] OTHER -> <<>>

\* re.sub(r"[^A-Za-z\xC0-\xFF\-\s'\.]", "", a): what clean_person_name keeps of one atom
NameCharsOfAtom(a) ==
    CASE a \in {"2", "123", ",", "(", ")", ";", "|", "/", ":", "?", "#", "@", "<rsquo>"} -> <<>>
      [] a \in {"555-1234", "555-5678"} -> <<"-">>
      [] a \in {"514-555-1234", "514-555-9999"} -> <<"-", "-">>
      [] a = "jane@x.com" -> <<"jane", "x", ".", "com">>
      [] a = "JANE@X.COM" -> <<"JANE", "X", ".", "COM">>
      [] a = "john@x.com" -> <<"john", "x", ".", "com">>
      [] a = "team@x.com" -> <<"team", "x", ".", "com">>
      [] OTHER -> <<a>>

\* re.sub(r"[^a-z]+", "", a) of a lower-case atom: its letters a-z
LettersOfAtom(a) ==
    CASE a \in {"jane@x.com"} -> <<"jane", "x", "com">>
      [] a \in {"john@x.com"} -> <<"john", "x", "com">>
      [] a \in {"team@x.com"} -> <<"team", "x", "com">>
      [] IsWord(a) -> <<a>>
      [] OTHER -> <<>>

(***************************************************************************)
(* String methods and regular expressions on texts.                        *)
(***************************************************************************)

RECURSIVE Flatten(_)
\* "".join(parts)
Flatten(parts) ==
    IF parts = <<>> THEN <<>> ELSE Head(parts) \o Flatten(Tail(parts))

RECURSIVE Dedupe(_)
\* list(dict.fromkeys(xs)): the first occurrence of each value, in order
Dedupe(xs) ==
    IF xs = <<>> THEN <<>>
    ELSE <<xs[1]>> \o Dedupe(SelectSeq(Tail(xs), LAMBDA x : x # xs[1]))

RECURSIVE StripChars(_, _)
\* s.strip(chars)
StripChars(s, C) ==
    IF s = <<>> THEN s
    ELSE IF s[1] \in C THEN StripChars(Tail(s), C)
    ELSE IF s[Len(s)] \in C THEN StripChars(Slice(s, 1, Len(s) - 1), C)
    ELSE s

\* s.strip()
Strip(s) == StripChars(s, SpaceAtoms)

RECURSIVE Split(_, _)
\* the maximal runs of s without a character of C (s.split() when C is \s)
Split(s, C) ==
    IF s = <<>> THEN <<>>
    ELSE IF s[1] \in C THEN Split(Tail(s), C)
    ELSE <<Slice(s, 1, FirstOf(s, C, 1) - 1)>> \o Split(From(s, FirstOf(s, C, 1)), C)

RECURSIVE CollapseSpaces(_, _)
\* re.sub(r"\s{n,}", " ", s) for n = 1 or 2: each run of at least n spaces
\* becomes one " "
CollapseSpaces(s, n) ==
    IF s = <<>> THEN <<>>
    ELSE IF s[1] \notin SpaceAtoms THEN <<s[1]>> \o CollapseSpaces(Tail(s), n)
    ELSE IF FirstOf(s, {a \in Range(s) : a \notin SpaceAtoms}, 1) - 1 >= n
         THEN <<" ">> \o CollapseSpaces(
                  From(s, FirstOf(s, {a \in Range(s) : a \notin SpaceAtoms}, 1)), n)
         ELSE <<s[1]>> \o CollapseSpaces(Tail(s), n)

\* EMAIL_RE.search(s)
HasEmail(s) == \E i \in 1..Len(s) : s[i] \in EmailAtoms

\* characters of PHONE_RE's class [\d\-\s().]
PhoneChars == DigitAtoms \cup SpaceAtoms \cup {"-", "(", ")", "."}

\* the number of characters of s[i..j]
RECURSIVE CharLenOf(_)
CharLenOf(s) == IF s = <<>> THEN 0 ELSE CharLen(s[1]) + CharLenOf(Tail(s))

\* PHONE_RE.search(s): a digit, at least 7 characters of the class, a digit
HasPhone(s) ==
    \E i \in 1..Len(s) : \E j \in i..Len(s) :
        /\ s[i] \in DigitAtoms /\ s[j] \in DigitAtoms
        /\ \A k \in i..j : s[k] \in PhoneChars
        /\ CharLenOf(Slice(s, i, j)) >= 9

(***************************************************************************)
(* Name cleaning / validation and role helpers.                            *)
(***************************************************************************)

\* BANNED_WORDS (here and below an accented letter is written without its
\* accent; no atom of the model has one)
BANNED_WORDS ==
    {"contact", "communiquer", "communique", "contactez", "nous", "joindre",
     "approach", "commitment", "services", "service", "produits", "product",
     "planning", "planification", "patrimoine", "privabanque", "bio",
     "biographie", "team", "accueil", "home", "wealth", "investment",
     "community", "partners", "partner", "successoraux", "fiduciaires",
     "fondee", "founded", "savoir", "plus", "visitez", "visit", "email", "call",
     "connect", "discovery", "process", "additional", "specialist", "specialists"}

\* PARTICLES that one atom spells ("o'" is two atoms and is tested apart)
PARTICLES ==
    {"de", "du", "des", "la", "le", "da", "di", "del", "della", "van", "von",
     "der", "den", "st", "ste", "saint", "sainte", "mc", "mac"}

\* ROLE_WORDS
ROLE_WORDS ==
    {"senior", "branch", "administrator", "admin", "assistant", "associate",
     "advisor", "adviser", "manager", "director", "president", "vp", "vice",
     "consultant", "specialist", "partner", "investment", "portfolio",
     "financial", "wealth", "planner", "planning", "conseiller", "conseillere",
     "placement", "gestionnaire", "directeur", "adjointe", "adjoint", "client",
     "service", "representative", "representant", "representante"}

\* JUNK_PHRASES that the atoms of the model spell
JUNK_PHRASES ==
    {<<"our", " ", "team">>, <<"contact", " ", "us">>,
     <<"additional", " ", "td", " ", "specialists">>}

\* TD_STOP_MARKERS that the atoms of the model spell
TD_STOP_MARKERS ==
    {<<"Additional", " ", "TD", " ", "Specialists">>,
     <<"Additional", " ", "TD", " ", "specialists">>}

\* TD_SOCIAL_MARKERS that the atoms of the model spell
TD_SOCIAL_MARKERS == {<<"social", " ", "links">>}

RECURSIVE RemoveParens(_)
\* re.sub(r"\([^)]*\)", "", s)
RemoveParens(s) ==
    IF ~Has(s, "(") \/ Find(s, ")", Find(s, "(", 1)) = 0 THEN s
    ELSE Slice(s, 1, Find(s, "(", 1) - 1)
         \o RemoveParens(From(s, Find(s, ")", Find(s, "(", 1)) + 1))

\* s.replace(nbsp, " ").replace(right quote, "'")
ReplaceNbspQuote(s) ==
    [i \in 1..Len(s) |-> IF s[i] = "<nbsp>" THEN " "
                          ELSE IF s[i] = "<rsquo>" THEN "'" ELSE s[i]]

\* if "," in s: s = s.split(",", 1)[0].strip()
BeforeComma(s) == IF Has(s, ",") THEN Strip(Slice(s, 1, Find(s, ",", 1) - 1)) ELSE s

\* re.sub(r"[^A-Za-z\xC0-\xFF\-\s'\.]", "", s)
KeepNameChars(s) == Flatten([i \in 1..Len(s) |-> NameCharsOfAtom(s[i])])

\* clean_person_name
clean_person_name(raw) ==
    StripChars(CollapseSpaces(KeepNameChars(
        BeforeComma(Strip(RemoveParens(ReplaceNbspQuote(raw))))), 2), {" ", "-", "|"})

\* t.lower().strip(".") of one token
LowToken(t) == StripChars(Lower(t), {"."})

\* re.search(r"\d", s)
HasDigit(s) == \E i \in 1..Len(s) : s[i] \in DigitAtoms

\* tl in PARTICLES
IsParticle(t) ==
    \/ Len(LowToken(t)) = 1 /\ LowToken(t)[1] \in PARTICLES
    \/ LowToken(t) = <<"o", "'">>

\* the loop over tokens: every token is a particle or starts with a capital,
\* and at least two start with a capital
CapsOk(tokens) ==
    /\ \A i \in 1..Len(tokens) :
          IsParticle(tokens[i]) \/ tokens[i][1] \in UpperWords
    /\ Cardinality({i \in 1..Len(tokens) : ~IsParticle(tokens[i])}) >= 2

\* is_valid_person_name, on the cleaned name s
ValidCleaned(s) ==
    /\ s # <<>>
    /\ ~HasDigit(s)
    /\ Strip(Lower(s)) \notin JUNK_PHRASES
    /\ Len(Split(s, SpaceAtoms)) >= 2
    /\ Len(Split(s, SpaceAtoms)) <= 6
    /\ \A i \in 1..Len(Split(s, SpaceAtoms)) :
          ~(Len(LowToken(Split(s, SpaceAtoms)[i])) = 1
            /\ LowToken(Split(s, SpaceAtoms)[i])[1] \in BANNED_WORDS)
    /\ CapsOk(Split(s, SpaceAtoms))

\* is_valid_person_name
is_valid_person_name(raw) == ValidCleaned(clean_person_name(raw))

\* re.sub(r"[^a-z]+", "", s.lower()), the body of _canon
Canon(s) == Flatten([i \in 1..Len(s) |-> LettersOfAtom(LowerAtom(s[i]))])

\* canon_name
canon_name(raw) == Canon(clean_person_name(raw))

\* re.findall(r"[A-Za-z\xC0-\xFF']+", tl): the runs of letters and apostrophes
RoleTokens(tl) == Split(tl, {a \in Range(tl) : ~IsWord(a) /\ a # "'"})

\* is_likely_role after its first lines, on the normalized text t
RoleTest(t, person_name) ==
    /\ CharLenOf(t) >= 2
    /\ CharLenOf(t) <= 110
    /\ Lower(t) \notin JUNK_PHRASES
    /\ ~HasEmail(t)
    /\ ~HasPhone(t)
    /\ ~(person_name # <<>> /\ Canon(t) = Canon(person_name))
    /\ \E i \in 1..Len(RoleTokens(Lower(t))) :
          /\ Len(RoleTokens(Lower(t))[i]) = 1
          /\ RoleTokens(Lower(t))[i][1] \in ROLE_WORDS

\* is_likely_role
is_likely_role(text, person_name) ==
    /\ text # <<>>
    /\ RoleTest(StripChars(CollapseSpaces(text, 1), {" ", "-", "|"}), person_name)

(***************************************************************************)
(* URL helpers: urllib.parse as norm_url uses it (CPython 3.11).           *)
(***************************************************************************)

UrlLetterAtoms == {"http", "https", "HTTP", "x", "X", "a", "p", "r", "q"}

\* urllib.parse.uses_netloc / uses_params, restricted to schemes the atoms spell
uses_netloc == {<<>>, <<"http">>, <<"https">>}
uses_params == {<<>>, <<"http">>, <<"https">>}

\* urlsplit: the scheme is url[:i] when every character before the first ':'
\* is a scheme character and the first one is a letter
HasScheme(url) ==
    /\ Find(url, ":", 1) > 1
    /\ \A k \in 1..(Find(url, ":", 1) - 1) : url[k] \in UrlLetterAtoms

\* urlsplit: scheme, url = url[:i].lower(), url[i+1:]
SchemeOf(url) ==
    IF HasScheme(url) THEN Lower(Slice(url, 1, Find(url, ":", 1) - 1)) ELSE <<>>

AfterScheme(url) ==
    IF HasScheme(url) THEN From(url, Find(url, ":", 1) + 1) ELSE url

\* urlsplit: if url[:2] == '//': netloc, url = _splitnetloc(url, 2)
NetlocOf(r) ==
    IF Slice(r, 1, 2) = <<"/", "/">>
    THEN Slice(r, 3, FirstOf(r, {"/", "?", "#"}, 3) - 1) ELSE <<>>

AfterNetloc(r) ==
    IF Slice(r, 1, 2) = <<"/", "/">>
    THEN From(r, FirstOf(r, {"/", "?", "#"}, 3)) ELSE r

\* urlsplit: if '#' in url: url, fragment = url.split('#', 1)
FragmentOf(r) == IF Has(r, "#") THEN From(r, Find(r, "#", 1) + 1) ELSE <<>>

BeforeFragment(r) == IF Has(r, "#") THEN Slice(r, 1, Find(r, "#", 1) - 1) ELSE r

\* urlsplit: if '?' in url: url, query = url.split('?', 1)
QueryOf(r) == IF Has(r, "?") THEN From(r, Find(r, "?", 1) + 1) ELSE <<>>

BeforeQuery(r) == IF Has(r, "?") THEN Slice(r, 1, Find(r, "?", 1) - 1) ELSE r

\* _splitparams: the parameters of the last path segment
splitparams(url) ==
    LET i == IF Has(url, "/") THEN Find(url, ";", RFind(url, "/"))
                              ELSE Find(url, ";", 1)
    IN IF i = 0 THEN <<url, <<>>>>
       ELSE <<Slice(url, 1, i - 1), From(url, i + 1)>>

\* urlparse: the params are cut off the path when the scheme uses them
ParamsOf(scheme, path) ==
    IF scheme \in uses_params /\ Has(path, ";") THEN splitparams(path)[2] ELSE <<>>

PathOf(scheme, path) ==
    IF scheme \in uses_params /\ Has(path, ";") THEN splitparams(path)[1] ELSE path

\* urlparse's 6-tuple, from the scheme, the netloc and what follows the netloc
ParseRest(scheme, netloc, r) ==
    [scheme |-> scheme, netloc |-> netloc,
     path |-> PathOf(scheme, BeforeQuery(BeforeFragment(r))),
     params |-> ParamsOf(scheme, BeforeQuery(BeforeFragment(r))),
     query |-> QueryOf(BeforeFragment(r)),
     fragment |-> FragmentOf(r)]

ParseAfterScheme(scheme, r) == ParseRest(scheme, NetlocOf(r), AfterNetloc(r))

\* urlparse(url)
urlparse(url) == ParseAfterScheme(SchemeOf(url), AfterScheme(url))

\* urlunsplit (CPython 3.11)
urlunsplit(scheme, netloc, url, query, fragment) ==
    (IF scheme # <<>> THEN scheme \o <<":">> ELSE <<>>)
    \o (IF netloc # <<>> \/ (scheme # <<>> /\ scheme \in uses_netloc
                              /\ Slice(url, 1, 2) # <<"/", "/">>)
        THEN <<"/", "/">> \o netloc
             \o (IF url # <<>> /\ url[1] # "/" THEN <<"/">> ELSE <<>>) \o url
        ELSE url)
    \o (IF query # <<>> THEN <<"?">> \o query ELSE <<>>)
    \o (IF fragment # <<>> THEN <<"#">> \o fragment ELSE <<>>)

\* ParseResult.geturl() = urlunparse
geturl(p) ==
    urlunsplit(p.scheme, p.netloc,
               IF p.params # <<>> THEN p.path \o <<";">> \o p.params ELSE p.path,
               p.query, p.fragment)

\* a buggy norm_url that strips the fragment only
norm_url_keeps_query(url) == geturl([urlparse(url) EXCEPT !.fragment = <<>>])

\* norm_url: p._replace(fragment="", query="").geturl()
norm_url(url) == geturl([urlparse(url) EXCEPT !.fragment = <<>>, !.query = <<>>])

(***************************************************************************)
(* Specification SpecUrl: norm_url applied to bounded URLs.                *)
(***************************************************************************)

MaxUrlLen == 4
MaxSlashes == 5

UrlAtoms == {"http", "X", ":", "/", "?", "#", ";"}

\* the part of a URL before its first '?' or '#'
UrlBase(url) == Slice(url, 1, FirstOf(url, {"?", "#"}, 1) - 1)

Slashes(n) == [i \in 1..n |-> "/"]

UrlSuffixes == {<<>>, <<"?", "q">>, <<"#", "q">>, <<"?", "q", "#", "?">>, <<"#", "?", "q">>}

\* scheme, slashes, host/path tail and query/fragment suffix put together
UrlShaped ==
    {s \o Slashes(n) \o t \o x :
        s \in {<<>>, <<"http", ":">>, <<"HTTP", ":">>, <<"x", ":">>},
        n \in 0..MaxSlashes,
        t \in {<<>>, <<"a">>, <<"a", "/", "p">>, <<"a", "/", "p", ";", "r">>},
        x \in UrlSuffixes}

UrlInputs == SeqsUpTo(UrlAtoms, MaxUrlLen) \cup UrlShaped

NotRun == <<"not run">>

None == "None"

\* the values the variables have in a specification that uses only the
\* parts named in used
Idle(used) ==
    /\ IF "url" \in used THEN TRUE
       ELSE u = NotRun /\ v = NotRun /\ normed = NotRun /\ normed2 = NotRun
            /\ normedV = NotRun
    /\ IF "fetch" \in used THEN TRUE
       ELSE PAGE_CACHE = <<>> /\ pc = "idle" /\ req_url = NotRun /\ attempt = 0
            /\ last_err = None /\ outcome = [kind |-> "none"] /\ errlog = <<>>
    /\ IF "text" \in used THEN TRUE
       ELSE text_in = NotRun /\ name_in = NotRun /\ nameResult = "not run"
            /\ roleResult = "not run"
    /\ IF "recon" \in used THEN TRUE
       ELSE df_out = <<>> /\ drop_no_contact = FALSE
            /\ df_clean = [ran |-> FALSE, rows |-> <<>>]
    /\ IF "td" \in used THEN TRUE
       ELSE td_page = [final_url |-> <<>>, has_h1 |-> FALSE, html_meet |-> FALSE,
                       strings |-> <<>>]
            /\ td_out = [ran |-> FALSE, people |-> <<>>, entries |-> <<>>]
    /\ IF "build" \in used THEN TRUE ELSE chosen = <<>>
    /\ IF "polite" \in used THEN TRUE
       ELSE sleep_s = 0 /\ slept = 0 /\ gap = 0 /\ http_log = <<>>
    /\ IF "ui" \in used THEN TRUE
       ELSE /\ ui = "idle" /\ seeds = <<>> /\ seed_no = 1 /\ dfs = <<>> /\ errors = <<>>
            /\ df_candidates = [set |-> FALSE, rows |-> <<>>]
            /\ edited_candidates = [set |-> FALSE, rows |-> <<>>]
            /\ errs_build = [set |-> FALSE, rows |-> <<>>]
            /\ max_targets = 0 /\ errs = <<>> /\ visited = <<>>

InitUrl ==
    /\ mode = "url"
    /\ u \in UrlInputs
    /\ v = NotRun
    /\ normed = NotRun
    /\ normed2 = NotRun
    /\ normedV = NotRun
    /\ Idle({"url"})

\* norm_url(u), norm_url of its result, and norm_url of a URL that differs
\* from u in query and fragment only
NormUrl ==
    /\ mode = "url"
    /\ normed = NotRun
    /\ \E x \in UrlSuffixes :
          /\ v' = UrlBase(u) \o x
          /\ normedV' = norm_url(UrlBase(u) \o x)
    /\ normed' = norm_url(u)
    /\ normed2' = norm_url(norm_url(u))
    /\ UNCHANGED <<mode, uiVars, politeVars, u, fetchVars, textVars, reconVars, tdVars>>

NextUrl == NormUrl

SpecUrl == InitUrl /\ [][NextUrl]_vars

\* C9 as stated: norm_url(norm_url(u)) = norm_url(u) for every URL u, and a URL
\* that differs from u only in query string and fragment normalizes like u.
C9_IdempotentForEveryUrl ==
    normed # NotRun => (normed2 = normed /\ normedV = normed)

\* C9 (amended): norm_url is idempotent for every URL that has a network
\* location (a host after "//"), and for every URL u a URL that differs from
\* u only in query string and fragment normalizes to the same value as u.
C9_IdempotentForUrlsWithHost ==
    normed # NotRun =>
        /\ (urlparse(u).netloc # <<>> => normed2 = normed)
        /\ normedV = normed

\* an http URL with a host, a query and a fragment has been normalized, and so
\* has a variant of it with another query/fragment
C9_Witness ==
    /\ normed # NotRun
    /\ SchemeOf(u) = <<"http">>
    /\ urlparse(u).netloc # <<>>
    /\ Has(u, "?") /\ Has(u, "#")
    /\ v # u
    /\ normed # u
    /\ normed2 = normed
    /\ normedV = normed

(***************************************************************************)
(* Specification SpecFetch: calls of polite_get, one HTTP attempt a step.  *)
(***************************************************************************)

\* retries: int = 3
retries == 3

\* the cache's maximum entry count (750 in the source), scaled down so that
\* eviction happens within the URLs of the model
CacheMax == 2

UrlA  == <<"http", ":", "/", "/", "a", "/", "p">>
UrlAq == <<"http", ":", "/", "/", "a", "/", "p", "?", "q">>
UrlAf == <<"http", ":", "/", "/", "a", "/", "p", "#", "q">>
UrlB  == <<"http", ":", "/", "/", "a", "/", "r">>
UrlC  == <<"http", ":", "/", "/", "a", "/", "q">>

FetchUrls == {UrlA, UrlAq, UrlAf, UrlB, UrlC}
FinalUrls == {UrlA, UrlB, UrlC}
Pages == {"html1", "html2"}
HttpErrors == {"timeout", "http 500"}

\* ukey in _PAGE_CACHE
InCache(cache, ukey) == \E i \in 1..Len(cache) : cache[i].key = ukey

\* _PAGE_CACHE[ukey]
CacheGet(cache, ukey) ==
    LET i == CHOOSE i \in 1..Len(cache) : cache[i].key = ukey
    IN <<cache[i].html, cache[i].final_url>>

\* _PAGE_CACHE[ukey] = (html, final_url); a dict keeps a key's first position
CachePut(cache, ukey, html, final_url) ==
    LET e == [key |-> ukey, html |-> html, final_url |-> final_url]
    IN IF InCache(cache, ukey)
       THEN [i \in 1..Len(cache) |-> IF cache[i].key = ukey THEN e ELSE cache[i]]
       ELSE Append(cache, e)

\* an eviction that drops the entry just inserted
CacheEvictNewest(cache) ==
    IF Len(cache) > CacheMax THEN SubSeq(cache, 1, Len(cache) - 1) ELSE cache

\* if len(_PAGE_CACHE) > 750: _PAGE_CACHE.pop(next(iter(_PAGE_CACHE)))
CacheEvict(cache) == IF Len(cache) > CacheMax THEN Tail(cache) ELSE cache

\* a loop that allows one attempt more than retries
in_range_off_by_one(i, n) == i <= n

\* for attempt in range(retries): the loop body runs for attempt < retries
in_range(i, n) == i < n

\* polite_get up to the loop: a cache hit returns, a miss sleeps and enters the loop
polite_get_call(x) ==
    /\ mode \in {"fetch", "polite", "cache"}
    /\ pc = "idle"
    /\ req_url' = x
    /\ errlog' = <<>>
    /\ IF InCache(PAGE_CACHE, norm_url(x))
       THEN /\ outcome' = [kind |-> "hit", ret |-> CacheGet(PAGE_CACHE, norm_url(x))]
            /\ UNCHANGED <<pc, attempt, last_err>>
       ELSE /\ pc' = "loop"
            /\ attempt' = 0
            /\ last_err' = None
            /\ outcome' = [kind |-> "running"]
    /\ UNCHANGED <<mode, uiVars, urlVars, textVars, reconVars, tdVars, PAGE_CACHE>>

\* one pass of the loop body in which SESSION.get and raise_for_status succeed
http_ok(html, final_url) ==
    /\ mode \in {"fetch", "polite", "cache"}
    /\ pc = "loop"
    /\ in_range(attempt, retries)
    /\ PAGE_CACHE' = CacheEvict(CachePut(PAGE_CACHE, norm_url(req_url), html, final_url))
    /\ outcome' = [kind |-> "returned", ret |-> <<html, final_url>>]
    /\ errlog' = Append(errlog, None)
    /\ pc' = "idle"
    /\ UNCHANGED <<mode, uiVars, urlVars, textVars, reconVars, tdVars, req_url, attempt, last_err>>

\* one pass of the loop body that raises e: remembered, backed off, next attempt
http_fail(e) ==
    /\ mode \in {"fetch", "polite", "cache"}
    /\ pc = "loop"
    /\ in_range(attempt, retries)
    /\ last_err' = e
    /\ errlog' = Append(errlog, e)
    /\ attempt' = attempt + 1
    /\ UNCHANGED <<mode, uiVars, urlVars, textVars, reconVars, tdVars, PAGE_CACHE, pc, req_url, outcome>>

\* the loop is exhausted: raise last_err
polite_get_raise ==
    /\ mode \in {"fetch", "polite", "cache"}
    /\ pc = "loop"
    /\ ~in_range(attempt, retries)
    /\ outcome' = [kind |-> "raised", err |-> last_err]
    /\ pc' = "idle"
    /\ UNCHANGED <<mode, uiVars, urlVars, textVars, reconVars, tdVars, PAGE_CACHE, req_url, attempt, last_err, errlog>>

InitFetch ==
    /\ mode = "fetch"
    /\ Idle({})

NextFetch ==
    \/ \E x \in FetchUrls : polite_get_call(x) /\ UNCHANGED politeVars
    \/ \E h \in Pages, f \in FinalUrls : http_ok(h, f) /\ UNCHANGED politeVars
    \/ \E e \in HttpErrors : http_fail(e) /\ UNCHANGED politeVars
    \/ polite_get_raise /\ UNCHANGED politeVars

SpecFetch == InitFetch /\ [][NextFetch]_vars

\* the attempts i..j of the running or last call all raised
AllFailed(log, i, j) == \A k \in i..j : log[k] # None

\* C10: a polite_get call that misses the cache issues at most 3 HTTP attempts;
\* it goes on to another attempt only after a failed one, returns at the first
\* attempt that succeeds, and after 3 failed attempts it stops and raises the
\* error of the last attempt.
C10_BoundedRetries ==
    /\ Len(errlog) <= 3
    /\ pc = "loop" => AllFailed(errlog, 1, Len(errlog))
    /\ outcome.kind = "returned" =>
           /\ errlog[Len(errlog)] = None
           /\ AllFailed(errlog, 1, Len(errlog) - 1)
    /\ outcome.kind = "raised" =>
           /\ Len(errlog) = 3
           /\ AllFailed(errlog, 1, 3)
           /\ outcome.err = errlog[3]
    /\ (pc = "loop" /\ Len(errlog) = 3) => ~ENABLED (\E e \in HttpErrors : http_fail(e))

\* a call has failed three times with different errors and raised
C10_Witness ==
    /\ outcome.kind = "raised"
    /\ Len(errlog) = 3
    /\ errlog[1] # errlog[3]
    /\ outcome.err = errlog[3]

(***************************************************************************)
(* Specification SpecPolite: calls of polite_get with the time each HTTP   *)
(* request waited.  Time is counted in quarters of a second, the step of   *)
(* the delay slider.                                                       *)
(***************************************************************************)

\* st.slider("Polite delay (seconds)", 0.25, 2.0, 0.75, 0.25)
SleepValues == 1..8

\* time.sleep(1.25 * (attempt + 1))
backoff(i) == 5 * (i + 1)

InitPolite ==
    /\ mode = "polite"
    /\ sleep_s \in SleepValues
    /\ slept = 0
    /\ gap = 0
    /\ http_log = <<>>
    /\ Idle({"polite"})

\* polite_get with its sleeps: time.sleep(max(0.0, sleep_s)) after a cache
\* miss, SESSION.get, and time.sleep(1.25 * (attempt + 1)) after a failure
NextPolite ==
    \/ \E x \in {UrlA, UrlAq, UrlB} :
          /\ polite_get_call(x)
          /\ slept' = IF InCache(PAGE_CACHE, norm_url(x)) THEN slept ELSE slept + sleep_s
          /\ UNCHANGED <<sleep_s, gap, http_log>>
    \/ \E h \in {"html1"}, f \in {UrlA, UrlB} :
          /\ http_ok(h, f)
          /\ gap' = slept
          /\ slept' = 0
          /\ UNCHANGED <<sleep_s, http_log>>
    \/ \E e \in {"timeout"} :
          /\ http_fail(e)
          /\ gap' = slept
          /\ slept' = backoff(attempt)
          /\ UNCHANGED <<sleep_s, http_log>>
    \/ polite_get_raise /\ UNCHANGED politeVars

SpecPolite == InitPolite /\ [][NextPolite]_vars

\* C11: every HTTP request of polite_get, the first attempt of a call and
\* each retry, was issued after a wait of at least the politeness delay
\* sleep_s since the request before it, for every delay of the slider
C11_DelayBeforeEveryRequest ==
    (mode = "polite" /\ errlog # <<>>) => gap >= sleep_s

(***************************************************************************)
(* Specification SpecCache: the calls of polite_get of one run, with the   *)
(* HTTP requests that succeeded.                                           *)
(***************************************************************************)

\* the successful HTTP requests the model follows in one run
MaxFetches == 3

InitCache ==
    /\ mode = "cache"
    /\ sleep_s = 3
    /\ slept = 0
    /\ gap = 0
    /\ http_log = <<>>
    /\ Idle({"polite"})

\* polite_get; a request that succeeds is added to http_log with the cache
\* key of the call, the page and the post-redirect URL
NextCache ==
    \/ \E x \in FetchUrls :
          /\ Len(http_log) < MaxFetches
          /\ polite_get_call(x)
          /\ UNCHANGED politeVars
    \/ \E h \in {"html1"}, f \in FinalUrls :
          /\ http_ok(h, f)
          /\ http_log' = Append(http_log, [key |-> norm_url(req_url), html |-> h,
                                           final_url |-> f])
          /\ UNCHANGED <<sleep_s, slept, gap>>
    \/ \E e \in {"timeout"} : http_fail(e) /\ UNCHANGED politeVars
    \/ polite_get_raise /\ UNCHANGED politeVars

SpecCache == InitCache /\ [][NextCache]_vars

\* C12: the cache never holds more than its maximum number of entries, and
\* it holds the latest successful requests in the order they were made: an
\* insertion beyond the maximum evicts the entry inserted earliest and keeps
\* the entry just inserted
C12_BoundedFifoCache ==
    mode = "cache" =>
        /\ Len(PAGE_CACHE) <= CacheMax
        /\ PAGE_CACHE = Slice(http_log, Len(http_log) - CacheMax + 1, Len(http_log))

\* a third page was inserted into a full cache: the first page is gone, the
\* second and the third are kept
C12_Witness ==
    /\ mode = "cache"
    /\ Len(http_log) > CacheMax
    /\ Len(PAGE_CACHE) = CacheMax
    /\ PAGE_CACHE[1] = http_log[Len(http_log) - CacheMax + 1]
    /\ PAGE_CACHE[CacheMax] = http_log[Len(http_log)]
    /\ \A i \in 1..Len(PAGE_CACHE) : PAGE_CACHE[i].key # http_log[1].key

\* C13: no page is fetched over HTTP twice in a run: no two successful
\* requests have the same normalized URL, and no successful request is for
\* the post-redirect URL an earlier request returned
C13_NoPageFetchedTwice ==
    mode = "cache" =>
        \A i, j \in 1..Len(http_log) :
            i < j => /\ http_log[j].key # http_log[i].key
                     /\ http_log[j].key # norm_url(http_log[i].final_url)

(***************************************************************************)
(* Specification SpecClassify: the name and role classifiers on bounded    *)
(* texts.                                                                  *)
(***************************************************************************)

MaxNameTokens == 3

RECURSIVE Join(_, _)
\* sep.join(parts)
Join(parts, sep) ==
    IF parts = <<>> THEN <<>>
    ELSE IF Len(parts) = 1 THEN parts[1]
    ELSE parts[1] \o sep \o Join(Tail(parts), sep)

\* the words a text is put together from: names, role words, a particle, a
\* banned word, digits alone and digits inside a word
TextTokens ==
    {<<"Jane">>, <<"Doe">>, <<"Sarah">>, <<"Investment">>, <<"Senior">>, <<"St">>,
     <<"Main">>, <<"123">>, <<"Doe", "2">>, <<"Team">>}

TextInputs == {Join(ts, <<" ">>) : ts \in SeqsUpTo(TextTokens, MaxNameTokens)}

PersonNames == {<<>>, <<"Jane", " ", "Doe">>, <<"Sarah", " ", "Investment">>}

Verdict(b) == IF b THEN "accepted" ELSE "rejected"

InitClassify ==
    /\ mode = "classify"
    /\ text_in \in TextInputs
    /\ name_in \in PersonNames
    /\ nameResult = "not run"
    /\ roleResult = "not run"
    /\ Idle({"text"})

\* is_valid_person_name(text_in)
ValidateName ==
    /\ mode = "classify"
    /\ nameResult = "not run"
    /\ nameResult' = Verdict(is_valid_person_name(text_in))
    /\ UNCHANGED <<mode, uiVars, politeVars, urlVars, fetchVars, reconVars, tdVars, text_in, name_in, roleResult>>

\* is_likely_role(text_in, name_in)
ClassifyRole ==
    /\ mode = "classify"
    /\ roleResult = "not run"
    /\ roleResult' = Verdict(is_likely_role(text_in, name_in))
    /\ UNCHANGED <<mode, uiVars, politeVars, urlVars, fetchVars, reconVars, tdVars, text_in, name_in, nameResult>>

NextClassify == ValidateName \/ ClassifyRole

SpecClassify == InitClassify /\ [][NextClassify]_vars

\* C5: is_likely_role rejects every role text whose tokens are a subset of the
\* tokens of the person's name, even when a token is a role-vocabulary word.
C5_NameTokensRejectedAsRole ==
    (/\ roleResult # "not run"
     /\ text_in # <<>>
     /\ Range(RoleTokens(Lower(text_in))) \subseteq Range(RoleTokens(Lower(name_in))))
    => roleResult = "rejected"

\* C8: is_valid_person_name rejects every text in which a digit is present.
C8_DigitTextRejected ==
    (nameResult # "not run" /\ HasDigit(text_in)) => nameResult = "rejected"

(***************************************************************************)
(* TD helpers: the people of an advisor profile page and of a roster page. *)
(* A page is its final URL, whether it has an h1 (then the h1 is the first *)
(* of its strings), whether its html says "meet the team", and its         *)
(* stripped strings in document order.  The pages of the model have no     *)
(* mailto: or tel: anchors, so e-mails and phones come from the text.      *)
(***************************************************************************)

RECURSIVE PhoneMatches(_)
\* PHONE_RE.findall(s): from a digit, the longest run of the class that ends
\* in a digit, when it has at least 9 characters
PhoneMatches(s) ==
    IF s = <<>> THEN <<>>
    ELSE IF s[1] \notin DigitAtoms THEN PhoneMatches(Tail(s))
    ELSE LET run == Slice(s, 1, FirstOf(s, Range(s) \ PhoneChars, 1) - 1)
             m == Slice(run, 1, CHOOSE k \in 1..Len(run) :
                                   /\ run[k] \in DigitAtoms
                                   /\ \A j \in (k + 1)..Len(run) : run[j] \notin DigitAtoms)
         IN IF CharLenOf(m) >= 9
            THEN <<m>> \o PhoneMatches(From(s, Len(m) + 1))
            ELSE PhoneMatches(Tail(s))

\* re.sub(r"\D+", "", s)
DigitsOf(s) == Flatten([i \in 1..Len(s) |-> DigitsOfAtom(s[i])])

\* the score _normalize_phone_list gives the candidate s
PhoneScore(s) ==
    (IF Has(s, "(") /\ Has(s, ")") THEN 3 ELSE 0)
    + (IF \E i \in 1..Len(s) :
             s[i] = " " \/ s[i] = "-" \/ Len(DigitsOfAtom(s[i])) \in 1..(CharLen(s[i]) - 1)
       THEN 1 ELSE 0)
    + (IF CharLenOf(s) <= 18 THEN 1 ELSE 0)

\* _normalize_phone_list: per digit string the first candidate of the best
\* score, then the candidates by descending score, at most three
normalize_phone_list(phone_candidates) ==
    LET ss == SelectSeq([i \in 1..Len(phone_candidates) |->
                            Strip(CollapseSpaces(phone_candidates[i], 1))],
                        LAMBDA x : Len(DigitsOf(x)) >= 10)
        by_digits == Dedupe([i \in 1..Len(ss) |-> DigitsOf(ss[i])])
        best == [k \in 1..Len(by_digits) |->
                    SelectSeq(ss, LAMBDA x :
                        /\ DigitsOf(x) = by_digits[k]
                        /\ \A y \in Range(ss) :
                              DigitsOf(y) = by_digits[k] => PhoneScore(y) <= PhoneScore(x))[1]]
    IN Slice(Flatten([n \in 1..6 |->
                         SelectSeq(best, LAMBDA x : PhoneScore(x) = 6 - n)]), 1, 3)

\* "; ".join(emails[:3]) of the e-mails EMAIL_RE finds in the lines, each once
EmailField(lines) ==
    Join(Slice(Dedupe(Flatten([i \in 1..Len(lines) |->
            [k \in 1..Len(SelectSeq(lines[i], LAMBDA a : a \in EmailAtoms)) |->
                <<SelectSeq(lines[i], LAMBDA a : a \in EmailAtoms)[k]>>]])), 1, 3),
         <<";", " ">>)

\* the address of td_extract_person_from_profile: the line after "office
\* location", else the window of lines around the first postal code
AddressOf(text_lines) ==
    LET office == FirstOf([i \in 1..Len(text_lines) |-> Lower(text_lines[i])],
                          {<<"office", " ", "location">>,
                           <<"adresse", " ", "du", " ", "bureau">>}, 1)
        postal == FirstOf([i \in 1..Len(text_lines) |->
                              \E k \in 1..Len(text_lines[i]) : text_lines[i][k] = "H2X 1Y4"],
                          {TRUE}, 1)
    IN IF office < Len(text_lines) /\ text_lines[office + 1] # <<>>
       THEN text_lines[office + 1]
       ELSE IF postal <= Len(text_lines)
       THEN Join(Slice(text_lines, postal - 2, postal + 1), <<" ", "|", " ">>)
       ELSE <<>>

\* td_extract_person_from_profile, as the list of the zero or one person
td_extract_person_from_profile(page) ==
    IF ~page.has_h1 \/ page.strings = <<>>
       \/ ~is_valid_person_name(clean_person_name(page.strings[1]))
    THEN <<>>
    ELSE LET name == clean_person_name(page.strings[1])
             lines == page.strings
             idx == FirstOf([i \in 1..Len(lines) |-> clean_person_name(lines[i])],
                            {name}, 1)
             stop == FirstOf([i \in 1..Len(lines) |-> Lower(lines[i])],
                             {<<"phone">>, <<"toll", " ", "free">>, <<"fax">>, <<"mobile">>,
                              <<"office", " ", "location">>, <<"contact">>,
                              <<"courriel">>, <<"telephone">>, <<"adresse">>}, idx + 1)
         IN << [advisor_name |-> name,
                advisor_role |->
                    Join(Dedupe(SelectSeq(
                        Slice(lines, idx + 1, IF stop - 1 < idx + 21 THEN stop - 1 ELSE idx + 21),
                        LAMBDA x : is_likely_role(x, name))), <<" ", "/", " ">>),
                advisor_email |-> EmailField(lines),
                advisor_phone |->
                    Join(normalize_phone_list(PhoneMatches(Join(lines, <<" ">>))), <<";", " ">>),
                advisor_address |-> AddressOf(lines),
                advisor_profile_url |-> norm_url(page.final_url),
                source |-> "td_profile"] >>

\* lines 445-451: the strings up to the first TD_STOP_MARKERS line
Trimmed(strings) ==
    Slice([i \in 1..Len(strings) |->
              [k \in 1..Len(Strip(strings[i])) |->
                  IF Strip(strings[i])[k] = "<nbsp>" THEN " " ELSE Strip(strings[i])[k]]],
          1, FirstOf(strings, TD_STOP_MARKERS, 1) - 1)

\* looks_like_person_line
looks_like_person_line(x) ==
    /\ is_valid_person_name(clean_person_name(x))
    /\ Lower(clean_person_name(x)) \notin JUNK_PHRASES

\* one buffer with every line
SegmentWhole(lines, cur) == IF cur \o lines = <<>> THEN <<>> ELSE <<cur \o lines>>

RECURSIVE Segment(_, _)
\* lines 463-482: the entries the loop makes of the lines, cur being the
\* buffer so far
Segment(lines, cur) ==
    IF lines = <<>> THEN (IF cur # <<>> THEN <<cur>> ELSE <<>>)
    ELSE IF Lower(Strip(lines[1])) \in TD_SOCIAL_MARKERS
    THEN (IF cur # <<>> THEN <<cur>> ELSE <<>>) \o Segment(Tail(lines), <<>>)
    ELSE IF Lower(lines[1]) = <<"photo">> THEN Segment(Tail(lines), cur)
    ELSE IF /\ cur # <<>>
            /\ \E i \in 1..Len(cur) : HasEmail(cur[i])
            /\ looks_like_person_line(lines[1])
    THEN <<cur>> \o Segment(Tail(lines), <<lines[1]>>)
    ELSE Segment(Tail(lines), Append(cur, lines[1]))

\* lines 486-491: the first valid cleaned name of the buffer, <<>> when none
BufferName(buf) ==
    LET names == SelectSeq([i \in 1..Len(buf) |-> clean_person_name(buf[i])],
                           is_valid_person_name)
    IN IF names = <<>> THEN <<>> ELSE names[1]

\* lines 507-512: the profile URL the text of the buffer spells, "" when none
ProfileUrlIn(buf_text) ==
    LET at == {i \in 1..Len(buf_text) :
                  /\ Slice(buf_text, i, i + 3) = <<"/", "/", "advisors.td.com", "/">>
                  /\ i + 4 <= Len(buf_text)
                  /\ IsWord(buf_text[i + 4]) \/ buf_text[i + 4] \in {"/", ".", "-"}}
        m == CHOOSE i \in at : \A j \in at : i <= j
    IN IF at = {} THEN <<>>
       ELSE norm_url(<<"https", ":", "/", "/", "advisors.td.com", "/">>
                \o StripChars(Slice(buf_text, m + 4,
                      FirstOf(buf_text, {a \in Range(buf_text) :
                                  ~IsWord(a) /\ a \notin {"/", ".", "-"}}, m + 4) - 1),
                      {"/"}))

\* lines 514-527: the role of the person called name in the buffer
MeetRole(buf, name) ==
    LET hit == FirstOf([i \in 1..Len(buf) |-> clean_person_name(buf[i])], {name}, 1)
        brk == FirstOf([i \in 1..Len(buf) |->
                           /\ clean_person_name(buf[i]) # name
                           /\ \/ HasEmail(buf[i])
                              \/ HasPhone(buf[i])
                              \/ Lower(buf[i]) \in TD_SOCIAL_MARKERS],
                       {TRUE}, hit + 1)
    IN Join(Dedupe(SelectSeq(Slice(buf, hit + 1, brk - 1),
                             LAMBDA x : /\ clean_person_name(x) # name
                                        /\ is_likely_role(x, name))),
            <<" ", "/", " ">>)

\* lines 495-537: the person of a buffer that has a name
MeetPerson(buf) ==
    [advisor_name |-> BufferName(buf),
     advisor_role |-> MeetRole(buf, BufferName(buf)),
     advisor_email |-> EmailField(buf),
     advisor_phone |->
         Join(normalize_phone_list(Flatten([k \in 1..Len(buf) |-> PhoneMatches(buf[k])])),
              <<";", " ">>),
     advisor_address |-> <<>>,
     advisor_profile_url |-> ProfileUrlIn(Join(buf, <<" ">>)),
     source |-> "td_meet_the_team"]

\* lines 543-547: the key of the dedupe within the page
PageKey(p) ==
    IF p.advisor_profile_url # <<>> THEN Lower(p.advisor_profile_url)
    ELSE IF p.advisor_email # <<>> THEN Lower(p.advisor_email)
    ELSE canon_name(p.advisor_name) \o <<"|">> \o DigitsOf(p.advisor_phone)

RECURSIVE FirstOfEachKey(_)
\* lines 539-552: the dedupe within the page, which keeps the first person of
\* each key
FirstOfEachKey(people) ==
    IF people = <<>> THEN <<>>
    ELSE <<people[1]>>
         \o FirstOfEachKey(SelectSeq(Tail(people),
                                     LAMBDA q : PageKey(q) # PageKey(people[1])))

\* lines 484-537: the people of the entries that have a name
MeetPeople(named) == [i \in 1..Len(named) |-> MeetPerson(named[i])]

\* td_extract_people_from_meet_page
td_extract_people_from_meet_page(page) ==
    FirstOfEachKey(MeetPeople(SelectSeq(Segment(Trimmed(page.strings), <<>>),
                                        LAMBDA buf : BufferName(buf) # <<>>)))

\* lines 558-571 of td_fetch_people: the choice between the people of the
\* roster extractor and the person of the profile extractor
FetchChoice(meet_path, html_meet, profile, roster) ==
    IF meet_path THEN roster
    ELSE IF profile # <<>> THEN profile
    ELSE IF html_meet /\ roster # <<>> THEN roster
    ELSE <<>>

\* td_fetch_people, on the page polite_get returned
td_fetch_people(page) ==
    FetchChoice(\E k \in 1..Len(urlparse(page.final_url).path) :
                    urlparse(page.final_url).path[k]
                        \in {"meet-the-team.htm", "meet-the-team", "meet-the-advisors.htm"},
                page.html_meet,
                td_extract_person_from_profile(page),
                td_extract_people_from_meet_page(page))

(***************************************************************************)
(* Post-processing / global de-dupe: post_process_directory.               *)
(***************************************************************************)

\* _first_email
first_email(email_field) ==
    IF Strip(email_field) = <<>> THEN <<>>
    ELSE Lower(Strip(Slice(Strip(email_field), 1,
                           FirstOf(Strip(email_field), {";"}, 1) - 1)))

\* _digits_phone
digits_phone(phone_field) ==
    Slice(Flatten([i \in 1..Len(phone_field) |-> DigitsOfAtom(phone_field[i])]), 1, 15)

\* score_row
score_row(r) ==
    (IF Strip(r.advisor_email) # <<>> THEN 1 ELSE 0)
    + (IF Strip(r.advisor_phone) # <<>> THEN 1 ELSE 0)
    + (IF Strip(r.advisor_address) # <<>> THEN 1 ELSE 0)
    + (IF Strip(r.advisor_profile_url) # <<>> THEN 1 ELSE 0)
    + (IF is_likely_role(Strip(r.advisor_role), r.advisor_name) THEN 1 ELSE 0)

\* a person_key that tries the e-mail before the profile URL
person_key_email_first(r) ==
    IF first_email(r.advisor_email) # <<>>
    THEN <<"e", ":">> \o first_email(r.advisor_email)
    ELSE IF Lower(Strip(r.advisor_profile_url)) # <<>>
    THEN <<"p", ":">> \o Lower(Strip(r.advisor_profile_url))
    ELSE IF digits_phone(r.advisor_phone) # <<>>
    THEN <<"t", ":">> \o digits_phone(r.advisor_phone)
    ELSE <<"n", ":">> \o canon_name(r.advisor_name)

\* a person_key that tries the phone before the e-mail
person_key_phone_before_email(r) ==
    IF Lower(Strip(r.advisor_profile_url)) # <<>>
    THEN <<"p", ":">> \o Lower(Strip(r.advisor_profile_url))
    ELSE IF digits_phone(r.advisor_phone) # <<>>
    THEN <<"t", ":">> \o digits_phone(r.advisor_phone)
    ELSE IF first_email(r.advisor_email) # <<>>
    THEN <<"e", ":">> \o first_email(r.advisor_email)
    ELSE <<"n", ":">> \o canon_name(r.advisor_name)

\* person_key: profile URL > email > phone > canonical name
person_key(r) ==
    IF Lower(Strip(r.advisor_profile_url)) # <<>>
    THEN <<"p", ":">> \o Lower(Strip(r.advisor_profile_url))
    ELSE IF first_email(r.advisor_email) # <<>>
    THEN <<"e", ":">> \o first_email(r.advisor_email)
    ELSE IF digits_phone(r.advisor_phone) # <<>>
    THEN <<"t", ":">> \o digits_phone(r.advisor_phone)
    ELSE <<"n", ":">> \o canon_name(r.advisor_name)

\* the rows with the name cleaned, none dropped
CleanedRows(df) == [i \in 1..Len(df) |-> [df[i] EXCEPT !.advisor_name = clean_person_name(@)]]

\* lines 877-878: the rows whose cleaned name is valid, with the name cleaned
ValidRows(df) ==
    SelectSeq([i \in 1..Len(df) |->
                  [df[i] EXCEPT !.advisor_name = clean_person_name(@)]],
              LAMBDA r : is_valid_person_name(r.advisor_name))

\* df["_score"] = df.apply(score_row, axis=1)
Scored(df) == [i \in 1..Len(df) |-> df[i] @@ ("_score" :> score_row(df[i]))]

\* df["person_key"] = df.apply(person_key, axis=1)
Keyed(df) == [i \in 1..Len(df) |-> df[i] @@ ("person_key" :> person_key(df[i]))]

\* a sort that puts the rows in ascending order of score
SortedOrdersAscending(df) ==
    {[i \in 1..Len(df) |-> df[q[i]]] :
        q \in {p \in [1..Len(df) -> 1..Len(df)] :
                 /\ \A i, j \in 1..Len(df) : i # j => p[i] # p[j]
                 /\ \A i, j \in 1..Len(df) : i < j => df[p[i]]._score <= df[p[j]]._score}}

\* df.sort_values("_score", ascending=False): the orders of the rows with the
\* scores descending.  The default sort kind is not a stable one, so rows
\* of equal score may come out in any order.
SortedOrders(df) ==
    {[i \in 1..Len(df) |-> df[q[i]]] :
        q \in {p \in [1..Len(df) -> 1..Len(df)] :
                 /\ \A i, j \in 1..Len(df) : i # j => p[i] # p[j]
                 /\ \A i, j \in 1..Len(df) : i < j => df[p[i]]._score >= df[p[j]]._score}}

\* the values of column col in group g that are not blank; for the role, only
\* those that pass is_likely_role with the base row's name
GroupVals(g, col) ==
    SelectSeq([i \in 1..Len(g) |-> g[i][col]],
              LAMBDA x : /\ Strip(x) # <<>>
                         /\ col = "advisor_role" => is_likely_role(x, g[1].advisor_name))

\* the last of the values instead of the first
PickLast(g, col) ==
    IF GroupVals(g, col) # <<>> THEN GroupVals(g, col)[Len(GroupVals(g, col))] ELSE g[1][col]

\* base[col] = vals[0] if vals else (base.get(col) or "")
Pick(g, col) == IF GroupVals(g, col) # <<>> THEN GroupVals(g, col)[1] ELSE g[1][col]

\* "; ".join(dict.fromkeys(the stripped, non-blank values of column col))
MergeTeams(g, col) ==
    Join(Dedupe(SelectSeq([i \in 1..Len(g) |-> Strip(g[i][col])],
                          LAMBDA x : x # <<>>)), <<";", " ">>)

\* the body of the loop over the groups: one merged row of group g
MergeGroup(g) ==
    [g[1] EXCEPT !.team_slug = MergeTeams(g, "team_slug"),
                 !.team_name = MergeTeams(g, "team_name"),
                 !.advisor_role = Pick(g, "advisor_role"),
                 !.advisor_email = Pick(g, "advisor_email"),
                 !.advisor_phone = Pick(g, "advisor_phone"),
                 !.advisor_address = Pick(g, "advisor_address"),
                 !.advisor_profile_url = Pick(g, "advisor_profile_url")]

\* a loop that merges nothing: every row is a group of its own
MergedRowsUngrouped(df) == [k \in 1..Len(df) |-> MergeGroup(<<df[k]>>)]

\* df.groupby(["person_key"], sort=False): the groups in order of first
\* appearance, each one merged
MergedRows(df) ==
    LET keys == Dedupe([i \in 1..Len(df) |-> df[i].person_key])
    IN [k \in 1..Len(keys) |->
           MergeGroup(SelectSeq(df, LAMBDA r : r.person_key = keys[k]))]

\* out.drop(columns=["_score", "person_key"])
DropColumns(rows) ==
    [i \in 1..Len(rows) |->
        [f \in DOMAIN rows[i] \ {"_score", "person_key"} |-> rows[i][f]]]

\* a filter that drops nothing
DropNothing(rows, drop) == rows

\* the drop_no_contact filter on the merged rows
DropNoContact(rows, drop) ==
    IF drop
    THEN SelectSeq(rows, LAMBDA r : Strip(r.advisor_email) # <<>>
                                    \/ Strip(r.advisor_phone) # <<>>)
    ELSE rows

(***************************************************************************)
(* Specification SpecRecon: post_process_directory on bounded row lists.   *)
(***************************************************************************)

MaxRecords == 2

JaneDoe == <<"Jane", " ", "Doe">>
JohnRoe == <<"John", " ", "Roe">>

Row(name, role, email, phone, address, prof, team) ==
    [advisor_name |-> name, advisor_role |-> role, advisor_email |-> email,
     advisor_phone |-> phone, advisor_address |-> address,
     advisor_profile_url |-> prof, team_name |-> team, team_slug |-> Lower(team),
     source |-> "extracted"]

\* rows with no contact at all, rows with one or two contact signals, and
\* rows whose name fails validation
RecordSet ==
    {Row(JaneDoe, role, <<>>, <<>>, addr, <<>>, team) :
        role \in {<<>>, <<"Senior", " ", "Advisor">>},
        addr \in {<<>>, <<"123", " ", "Main", " ", "St">>},
        team \in {<<"Alpha">>, <<"Beta">>}}
    \cup
    {Row(JaneDoe, <<>>, c[1], c[2], <<>>, c[3], team) :
        c \in {<< <<"jane@x.com">>, <<>>, <<>> >>,
               << <<>>, <<"514-555-1234">>, <<>> >>,
               << <<"JANE@X.COM">>, <<>>, <<"http", ":", "/", "/", "a", "/", "p">> >>,
               << <<>>, <<"514-555-1234">>, <<"HTTP", ":", "/", "/", "a", "/", "p">> >>},
        team \in {<<"Alpha">>}}
    \cup
    {Row(JohnRoe, <<>>, <<"jane@x.com", ";", " ", "j@x.com">>, <<"514-555-9999">>, <<>>, <<>>,
         <<"Beta">>),
     Row(JohnRoe, <<>>, <<>>, <<"514-555-1234">>, <<>>,
         <<"HTTP", ":", "/", "/", "a", "/", "p">>, <<"Alpha">>),
     Row(<<"Our", " ", "Team">>, <<>>, <<"team@x.com">>, <<>>, <<>>, <<>>, <<"Alpha">>),
     Row(<<"Jane", " ", "Doe", ",", " ", "Senior">>, <<"Hello">>, <<>>, <<>>, <<>>, <<>>,
         <<"Alpha">>)}

InitRecon ==
    /\ mode = "recon"
    /\ df_out \in SeqsUpTo(RecordSet, MaxRecords)
    /\ drop_no_contact \in BOOLEAN
    /\ df_clean = [ran |-> FALSE, rows |-> <<>>]
    /\ Idle({"recon"})

\* post_process_directory(df_out, drop_no_contact)
post_process_directory ==
    /\ mode \in {"recon", "build", "run"}
    /\ chosen = <<>>
    /\ mode = "run" \/ ~df_clean.ran
    /\ \E sorted \in SortedOrders(Scored(ValidRows(df_out))) :
          df_clean' = [ran |-> TRUE,
                       rows |-> DropNoContact(DropColumns(MergedRows(Keyed(sorted))),
                                              drop_no_contact)]
    /\ UNCHANGED <<mode, politeVars, urlVars, fetchVars, textVars, tdVars, df_out, drop_no_contact>>

NextRecon == post_process_directory /\ UNCHANGED uiVars

SpecRecon == InitRecon /\ [][NextRecon]_vars

\* the value is not blank
Filled(x) == Strip(x) # <<>>

\* C1: after post_process_directory, no two rows of its output have the same
\* identity key, and the output has at most as many rows as the input
C1_NoDuplicateKey ==
    df_clean.ran =>
        /\ Len(df_clean.rows) <= Len(df_out)
        /\ \A i, j \in 1..Len(df_clean.rows) :
              i # j => person_key(df_clean.rows[i]) # person_key(df_clean.rows[j])

\* C1: two input rows with one key were merged into one output row
C1_Witness ==
    /\ df_clean.ran
    /\ Len(df_out) = 2
    /\ person_key(df_out[1]) = person_key(df_out[2])
    /\ df_out[1] # df_out[2]
    /\ Len(df_clean.rows) = 1

\* rows i and j of rs share a profile URL, i has an e-mail and no phone, j a
\* phone and no e-mail
EmailOnlyPhoneOnly(rs, i, j) ==
    /\ Filled(rs[i].advisor_profile_url)
    /\ Lower(Strip(rs[i].advisor_profile_url)) = Lower(Strip(rs[j].advisor_profile_url))
    /\ Filled(rs[i].advisor_email) /\ ~Filled(rs[i].advisor_phone)
    /\ Filled(rs[j].advisor_phone) /\ ~Filled(rs[j].advisor_email)

\* the rows of rs whose profile URL is that of row r
RowsForInput(rs, r) ==
    {k \in 1..Len(rs) :
        Lower(Strip(rs[k].advisor_profile_url)) = Lower(Strip(r.advisor_profile_url))}

\* the output rows whose profile URL is that of row r
RowsFor(r) ==
    {k \in 1..Len(df_clean.rows) :
        Lower(Strip(df_clean.rows[k].advisor_profile_url))
            = Lower(Strip(r.advisor_profile_url))}

\* C2: when two rows with valid names share a profile URL, one with only an
\* e-mail and the other with only a phone, the output has exactly one row for
\* that profile URL and the row has both an e-mail and a phone, each taken
\* from an input row with that profile URL
C2_EmailAndPhoneMerged ==
    df_clean.ran =>
        LET valid == ValidRows(df_out)
        IN \A i, j \in 1..Len(valid) :
            EmailOnlyPhoneOnly(valid, i, j) =>
                /\ Cardinality(RowsFor(valid[i])) = 1
                /\ \A k \in RowsFor(valid[i]) :
                      /\ Filled(df_clean.rows[k].advisor_email)
                      /\ Filled(df_clean.rows[k].advisor_phone)
                      /\ \E m \in 1..Len(valid) :
                            /\ valid[m].advisor_email = df_clean.rows[k].advisor_email
                            /\ m \in RowsForInput(valid, valid[i])
                      /\ \E m \in 1..Len(valid) :
                            /\ valid[m].advisor_phone = df_clean.rows[k].advisor_phone
                            /\ m \in RowsForInput(valid, valid[i])

\* C2: an e-mail-only row and a phone-only row with one profile URL went in,
\* and one row with the e-mail of the one and the phone of the other came out
C2_Witness ==
    /\ df_clean.ran
    /\ Len(df_out) = 2
    /\ EmailOnlyPhoneOnly(df_out, 1, 2)
    /\ Len(df_clean.rows) = 1
    /\ df_clean.rows[1].advisor_email = df_out[1].advisor_email
    /\ df_clean.rows[1].advisor_phone = df_out[2].advisor_phone

\* rows i < j of rs are the only two with their canonical name, neither has a
\* profile URL, an e-mail or a phone, and their teams are Alpha and Beta
AlphaBeta(rs, i, j) ==
    /\ i < j
    /\ person_key(rs[i]) = <<"n", ":">> \o canon_name(rs[i].advisor_name)
    /\ person_key(rs[j]) = person_key(rs[i])
    /\ \A k \in 1..Len(rs) : person_key(rs[k]) = person_key(rs[i]) => k \in {i, j}
    /\ \A k \in {i, j} : /\ ~Filled(rs[k].advisor_profile_url)
                         /\ ~Filled(rs[k].advisor_email)
                         /\ ~Filled(rs[k].advisor_phone)
    /\ rs[i].team_name = <<"Alpha">>
    /\ rs[j].team_name = <<"Beta">>

\* the team names of the output rows whose key is that of row r
TeamNamesFor(r) ==
    [k \in {m \in 1..Len(df_clean.rows) :
               person_key(df_clean.rows[m]) = person_key(r)}
        |-> df_clean.rows[k].team_name]

\* C4 as the specification states it: with the no-contact filter off, two
\* rows with one canonical name and no contact, of teams Alpha and Beta, give
\* exactly one row whose team name is "Alpha; Beta", whatever their role and
\* address
C4_AlphaThenBeta ==
    (df_clean.ran /\ ~drop_no_contact) =>
        LET valid == ValidRows(df_out)
        IN \A i, j \in 1..Len(valid) :
            AlphaBeta(valid, i, j) =>
                /\ Cardinality(DOMAIN TeamNamesFor(valid[i])) = 1
                /\ \A k \in DOMAIN TeamNamesFor(valid[i]) :
                      TeamNamesFor(valid[i])[k] = <<"Alpha", ";", " ", "Beta">>

\* C4 as the code has it: with the no-contact filter off, the two rows give
\* exactly one row, whose team name lists the team of the row with the higher
\* completeness score first: "Alpha; Beta" when the Alpha row scores higher,
\* "Beta; Alpha" when the Beta row scores higher, one of the two on a tie
C4_TeamsInScoreOrder ==
    (df_clean.ran /\ ~drop_no_contact) =>
        LET valid == Scored(ValidRows(df_out))
        IN \A i, j \in 1..Len(valid) :
            AlphaBeta(valid, i, j) =>
                /\ Cardinality(DOMAIN TeamNamesFor(valid[i])) = 1
                /\ \A k \in DOMAIN TeamNamesFor(valid[i]) :
                      /\ TeamNamesFor(valid[i])[k]
                            \in {<<"Alpha", ";", " ", "Beta">>,
                                 <<"Beta", ";", " ", "Alpha">>}
                      /\ valid[i]._score > valid[j]._score
                            => TeamNamesFor(valid[i])[k] = <<"Alpha", ";", " ", "Beta">>
                      /\ valid[i]._score < valid[j]._score
                            => TeamNamesFor(valid[i])[k] = <<"Beta", ";", " ", "Alpha">>

\* C4: the Beta row has an address and the Alpha row has none, and the one
\* row that came out names the teams "Beta; Alpha"
C4_Witness ==
    /\ df_clean.ran
    /\ ~drop_no_contact
    /\ Len(df_out) = 2
    /\ AlphaBeta(df_out, 1, 2)
    /\ ~Filled(df_out[1].advisor_address)
    /\ Filled(df_out[2].advisor_address)
    /\ Len(df_clean.rows) = 1
    /\ df_clean.rows[1].team_name = <<"Beta", ";", " ", "Alpha">>

\* the identity signals of a row in priority order: profile URL, first
\* e-mail, phone digits, canonical name
KeySignals(r) ==
    <<Lower(Strip(r.advisor_profile_url)), first_email(r.advisor_email),
      digits_phone(r.advisor_phone), canon_name(r.advisor_name)>>

\* the place of the first signal that is not empty (4, the name, when none is)
FirstSignal(sig) == CHOOSE n \in 1..4 : /\ (sig[n] # <<>> \/ n = 4)
                                        /\ \A m \in 1..(n - 1) : sig[m] = <<>>

\* C16: the key of a row is made of its first non-empty signal in the order
\* profile URL, first e-mail, phone digits, canonical name, whatever the
\* signals after it are, and two rows keyed by signals of different kinds
\* have different keys
C16_KeyByFirstSignal ==
    (mode = "recon" /\ df_clean.ran) =>
        LET valid == ValidRows(df_out)
            kind == [i \in 1..Len(valid) |-> FirstSignal(KeySignals(valid[i]))]
        IN /\ \A i \in 1..Len(valid) :
                 person_key(valid[i])
                     = <<(<<"p", "e", "t", "n">>)[kind[i]], ":">> \o KeySignals(valid[i])[kind[i]]
           /\ \A i, j \in 1..Len(valid) :
                 kind[i] # kind[j] => person_key(valid[i]) # person_key(valid[j])

\* a run over a row with a profile URL and an e-mail and a row with an e-mail
\* and a phone and no profile URL
C16_Witness ==
    /\ mode = "recon"
    /\ df_clean.ran
    /\ Len(ValidRows(df_out)) = 2
    /\ df_out[1].advisor_profile_url # <<>>
    /\ df_out[1].advisor_email # <<>>
    /\ df_out[2].advisor_profile_url = <<>>
    /\ df_out[2].advisor_email # <<>>
    /\ df_out[2].advisor_phone # <<>>

(***************************************************************************)
(* Specification SpecMerge: post_process_directory on rows that share      *)
(* identity keys and differ in their fields, rows with several phone       *)
(* numbers, and rows whose names fail validation.                          *)
(***************************************************************************)

SeniorAdvisor == <<"Senior", " ", "Advisor">>
MainSt == <<"123", " ", "Main", " ", "St">>

MergeRecords ==
    {Row(JaneDoe, <<"Hello">>, <<"jane@x.com">>, <<"514-555-1234">>, MainSt, <<>>, <<"Alpha">>),
     Row(JaneDoe, <<>>, <<"jane@x.com">>, <<"514-555-9999">>, <<>>, <<>>, <<"Beta">>),
     Row(JaneDoe, SeniorAdvisor, <<"jane@x.com">>, <<>>, <<>>, <<>>, <<"Beta">>),
     Row(JaneDoe, <<>>, <<>>, <<"514-555-1234">>, <<>>, <<>>, <<"Alpha">>),
     Row(JaneDoe, <<>>, <<>>, <<"514-555-1234", ";", " ", "514-555-9999">>, <<>>, <<>>,
         <<"Beta">>),
     Row(JaneDoe, SeniorAdvisor, <<>>, <<>>, <<>>, <<>>, <<"Alpha">>),
     Row(<<"jane", " ", "doe">>, <<>>, <<>>, <<>>, MainSt, <<>>, <<"Beta">>),
     Row(<<"Our", " ", "Team">>, <<>>, <<"jane@x.com">>, <<"514-555-9999">>, <<>>, <<>>,
         <<"Beta">>),
     [Row(<<>>, <<>>, <<>>, <<>>, <<>>, <<>>, <<"Alpha">>) EXCEPT !.source = "no_people_found"]}

InitMerge ==
    /\ mode = "recon"
    /\ df_out \in SeqsUpTo(MergeRecords, MaxRecords)
    /\ drop_no_contact \in BOOLEAN
    /\ df_clean = [ran |-> FALSE, rows |-> <<>>]
    /\ Idle({"recon"})

SpecMerge == InitMerge /\ [][NextRecon]_vars

\* the validated rows that have the identity key of row o
GroupOf(o) ==
    LET valid == ValidRows(df_out)
    IN {valid[i] : i \in {k \in 1..Len(valid) : person_key(valid[k]) = person_key(o)}}

\* val is the value column col has in a row of cands no other row of cands
\* outscores
FromBest(val, cands, col) ==
    \E r \in cands : /\ r[col] = val
                     /\ \A q \in cands : score_row(r) >= score_row(q)

\* the value of column col in output row o is that of a best-scored row of
\* its group among those where the column is not blank, and blank when there
\* is none
FirstFilled(o, col) ==
    LET cands == {r \in GroupOf(o) : Filled(r[col])}
    IN IF cands = {} THEN ~Filled(o[col]) ELSE FromBest(o[col], cands, col)

ContactCols == {"advisor_email", "advisor_phone", "advisor_address", "advisor_profile_url"}

\* C21, as the claim states it: in every output row the role, like the four
\* contact fields, is the first non-blank value of its group in descending
\* score order
C21_FirstFilledRoleToo ==
    (mode = "recon" /\ df_clean.ran) =>
        \A i \in 1..Len(df_clean.rows) :
           \A col \in ContactCols \cup {"advisor_role"} : FirstFilled(df_clean.rows[i], col)

\* C21: in every output row each of e-mail, phone, address and profile URL is
\* the first non-blank value of its group in descending score order; the role
\* is the first value in that order that passes is_likely_role with the row's
\* name, and the role of the group's first row when none passes
C21_FirstFilledFirstLikelyRole ==
    (mode = "recon" /\ df_clean.ran) =>
        \A i \in 1..Len(df_clean.rows) :
           /\ \A col \in ContactCols : FirstFilled(df_clean.rows[i], col)
           /\ LET o == df_clean.rows[i]
                  likely == {r \in GroupOf(o) :
                                /\ Filled(r.advisor_role)
                                /\ is_likely_role(r.advisor_role, o.advisor_name)}
              IN FromBest(o.advisor_role, IF likely = {} THEN GroupOf(o) ELSE likely,
                          "advisor_role")

\* a group of two rows was merged: the first has a role that is no role, a
\* phone and an address, the second a role or another phone
C21_Witness ==
    /\ mode = "recon" /\ df_clean.ran
    /\ Len(df_out) = 2 /\ Len(df_clean.rows) = 1
    /\ df_out[1].advisor_role = <<"Hello">>
    /\ df_out[2].advisor_role = SeniorAdvisor
    /\ df_clean.rows[1].advisor_role = SeniorAdvisor
    /\ df_clean.rows[1].advisor_phone = <<"514-555-1234">>

\* the identity keys of the rows of rs
KeysOf(rs) == {person_key(rs[i]) : i \in 1..Len(rs)}

\* C22: with drop_no_contact set, every output row has an e-mail or a phone
\* that is not blank; with it not set, the output has exactly one row for
\* every identity key of the validated input rows
C22_DropPolicy ==
    (mode = "recon" /\ df_clean.ran) =>
        IF drop_no_contact
        THEN \A i \in 1..Len(df_clean.rows) :
                Filled(df_clean.rows[i].advisor_email) \/ Filled(df_clean.rows[i].advisor_phone)
        ELSE /\ KeysOf(df_clean.rows) = KeysOf(ValidRows(df_out))
             /\ Len(df_clean.rows) = Cardinality(KeysOf(ValidRows(df_out)))

\* with the flag set, of two persons the one without e-mail and phone was
\* dropped and the other kept
C22_Witness ==
    /\ mode = "recon" /\ df_clean.ran /\ drop_no_contact
    /\ Cardinality(KeysOf(ValidRows(df_out))) = 2
    /\ Len(df_clean.rows) = 1
    /\ \E i \in 1..2 : ~Filled(df_out[i].advisor_email) /\ ~Filled(df_out[i].advisor_phone)

\* the team names joined in t
TeamsIn(t) == {Strip(x) : x \in Range(Split(t, {";"}))}

\* C23: every output row has a name that is clean and passes
\* is_valid_person_name; the output has at most one row for every key of a
\* validated input row; every field of an output row that is not blank and
\* every team in its team_name is that of a validated input row with the
\* row's key, so a row whose name fails validation gives nothing
C23_OnlyValidNames ==
    (mode = "recon" /\ df_clean.ran) =>
        /\ Len(df_clean.rows) <= Cardinality(KeysOf(ValidRows(df_out)))
        /\ \A i \in 1..Len(df_clean.rows) :
              LET o == df_clean.rows[i]
              IN /\ is_valid_person_name(o.advisor_name)
                 /\ clean_person_name(o.advisor_name) = o.advisor_name
                 /\ \A col \in ContactCols \cup {"advisor_role"} :
                       Filled(o[col]) => \E r \in GroupOf(o) : r[col] = o[col]
                 /\ TeamsIn(o.team_name) \subseteq {Strip(r.team_name) : r \in GroupOf(o)}

\* a row whose name fails validation came with a validated row of the same
\* canonical name, and its address and team are not in the output
C23_Witness ==
    /\ mode = "recon" /\ df_clean.ran
    /\ Len(df_out) = 2 /\ Len(ValidRows(df_out)) = 1 /\ Len(df_clean.rows) = 1
    /\ \E i \in 1..2 :
          /\ ~is_valid_person_name(df_out[i].advisor_name)
          /\ canon_name(df_out[i].advisor_name) = canon_name(df_clean.rows[1].advisor_name)
          /\ Filled(df_out[i].advisor_address)
          /\ ~Filled(df_clean.rows[1].advisor_address)
          /\ df_out[i].team_name \notin TeamsIn(df_clean.rows[1].team_name)

\* the digits of the first phone number a phone field lists
FirstPhoneDigits(phone_field) ==
    DigitsOf(Slice(phone_field, 1, FirstOf(phone_field, {";"}, 1) - 1))

\* the row has no profile URL and no e-mail, and a phone number
PhoneKeyed(r) ==
    /\ ~Filled(r.advisor_profile_url)
    /\ ~Filled(r.advisor_email)
    /\ FirstPhoneDigits(r.advisor_phone) # <<>>

\* C26, as the claim states it: two validated rows with no profile URL and no
\* e-mail whose first listed phone number has the same digits have the same
\* key, however many phone numbers either lists, and the output holds one
\* row for them
C26_SameFirstPhoneSameKey ==
    (mode = "recon" /\ df_clean.ran) =>
        /\ \A a, b \in Range(ValidRows(df_out)) :
              (/\ PhoneKeyed(a) /\ PhoneKeyed(b)
               /\ FirstPhoneDigits(a.advisor_phone) = FirstPhoneDigits(b.advisor_phone))
                  => person_key(a) = person_key(b)
        /\ ~drop_no_contact =>
              \A i, j \in 1..Len(df_clean.rows) :
                 (/\ i # j
                  /\ PhoneKeyed(df_clean.rows[i]) /\ PhoneKeyed(df_clean.rows[j]))
                     => FirstPhoneDigits(df_clean.rows[i].advisor_phone)
                           # FirstPhoneDigits(df_clean.rows[j].advisor_phone)

(***************************************************************************)
(* Specification SpecBlock: extract_contact_from_block on the text lines   *)
(* of a block that has no mailto: or tel: anchors.                         *)
(***************************************************************************)

MaxBlockLines == 4

PostalLine == <<"QC", " ", "H2X 1Y4">>

\* the lines a block is made of
BlockLines == {MainSt, <<"Montreal">>, PostalLine, <<"jane@x.com">>}

\* POSTAL_CA_RE.search(line)
HasPostal(line) == \E k \in 1..Len(line) : line[k] = "H2X 1Y4"

\* the place of the first line with a postal code, Len + 1 when there is none
FirstPostal(txt_lines) ==
    FirstOf([i \in 1..Len(txt_lines) |-> HasPostal(txt_lines[i])], {TRUE}, 1)

\* lines 746-784: extract_contact_from_block; txt_lines[start:end] with
\* start = max(0, i - 2) and end = min(len, i + 2) is, counting lines from 1,
\* the lines from two before the match to one after it
extract_contact_from_block(txt_lines) ==
    [advisor_email |-> EmailField(txt_lines),
     advisor_phone |->
         Join(Slice(Dedupe([k \in 1..Len(PhoneMatches(Join(txt_lines, <<" ">>))) |->
                               Strip(CollapseSpaces(PhoneMatches(Join(txt_lines, <<" ">>))[k],
                                                    1))]), 1, 3),
              <<";", " ">>),
     advisor_address |->
         IF FirstPostal(txt_lines) <= Len(txt_lines)
         THEN Join(Slice(txt_lines, FirstPostal(txt_lines) - 2, FirstPostal(txt_lines) + 1),
                   <<" ", "|", " ">>)
         ELSE <<>>]

InitBlock ==
    /\ mode = "block"
    /\ td_page \in [final_url : {<<"https", ":", "/", "/", "www.example.ca", "/", "team">>}, has_h1 : {FALSE},
                    html_meet : {FALSE}, strings : SeqsUpTo(BlockLines, MaxBlockLines)]
    /\ td_out = [ran |-> FALSE, people |-> <<>>, entries |-> <<>>]
    /\ Idle({"td"})

\* line 808: contact = extract_contact_from_block(block)
ExtractContact ==
    /\ mode = "block"
    /\ ~td_out.ran
    /\ td_out' = [ran |-> TRUE,
                  people |-> <<extract_contact_from_block(td_page.strings)>>,
                  entries |-> <<>>]
    /\ UNCHANGED <<mode, uiVars, politeVars, urlVars, fetchVars, textVars, reconVars, td_page,
                   chosen>>

NextBlock == ExtractContact

SpecBlock == InitBlock /\ [][NextBlock]_vars

\* C25, as the claim states it: the address is the lines from two before the
\* first line with a postal code to two after it, clipped to the block,
\* joined in order
C25_TwoBeforeTwoAfter ==
    (mode = "block" /\ td_out.ran /\ FirstPostal(td_page.strings) <= Len(td_page.strings)) =>
        td_out.people[1].advisor_address =
            Join(Slice(td_page.strings, FirstPostal(td_page.strings) - 2,
                       FirstPostal(td_page.strings) + 2), <<" ", "|", " ">>)

(***************************************************************************)
(* Specification SpecTd: td_fetch_people on bounded TD pages.              *)
(***************************************************************************)

MaxLines == 3

\* the lines the strings of a page are drawn from
LineSet ==
    {JaneDoe, JohnRoe, <<"Senior", " ", "Advisor">>, <<"jane@x.com">>,
     <<"514-555-1234">>, <<"Additional", " ", "TD", " ", "Specialists">>,
     <<"Social", " ", "Links">>}

\* the six lines of the two people of the segmentation example
ExampleLines ==
    <<JaneDoe, <<"Senior", " ", "Advisor">>, <<"jane@x.com", ",", " ", "555-1234">>,
      JohnRoe, <<"Associate">>, <<"john@x.com", ",", " ", "555-5678">> >>

\* pages at an advisor's root URL and at a team's meet-the-team URL
TdPages ==
    [final_url : {<<"https", ":", "/", "/", "advisors.td.com", "/", "jane-doe", "/">>,
                  <<"https", ":", "/", "/", "advisors.td.com", "/", "doe-group", "/",
                    "meet-the-team.htm">>},
     has_h1 : BOOLEAN,
     html_meet : BOOLEAN,
     strings : SeqsUpTo(LineSet, MaxLines)
               \cup {ExampleLines, <<<<"Photo">>>> \o ExampleLines}]

InitTd ==
    /\ mode = "td"
    /\ td_page \in TdPages
    /\ td_out = [ran |-> FALSE, people |-> <<>>, entries |-> <<>>]
    /\ Idle({"td"})

\* td_fetch_people(td_page); entries is what the segmenter makes of the
\* page's lines
TdFetchPeople ==
    /\ mode = "td"
    /\ ~td_out.ran
    /\ td_out' = [ran |-> TRUE,
                  people |-> td_fetch_people(td_page),
                  entries |-> Segment(Trimmed(td_page.strings), <<>>)]
    /\ UNCHANGED <<mode, uiVars, politeVars, urlVars, fetchVars, textVars, reconVars, td_page, chosen>>

NextTd == TdFetchPeople

SpecTd == InitTd /\ [][NextTd]_vars

\* C6: in the entries of the segmenter no buffer holds a plausible person
\* name after a line with an e-mail or a phone, that is, a new buffer starts
\* at every plausible name that follows a contact; and the six example lines
\* give two buffers, split at "John Roe"
C6_SplitAfterEmailOrPhone ==
    td_out.ran =>
        /\ \A b \in 1..Len(td_out.entries) : \A k \in 2..Len(td_out.entries[b]) :
              ~(/\ looks_like_person_line(td_out.entries[b][k])
                /\ \E j \in 1..(k - 1) : \/ HasEmail(td_out.entries[b][j])
                                         \/ HasPhone(td_out.entries[b][j]))
        /\ td_page.strings = ExampleLines =>
              td_out.entries = <<Slice(ExampleLines, 1, 3), Slice(ExampleLines, 4, 6)>>

\* the page without its first stop-marker line and the lines after it
BeforeStopMarker(page) ==
    [page EXCEPT !.strings = Slice(@, 1, FirstOf(@, TD_STOP_MARKERS, 1) - 1)]

\* C7: for a roster page (one at a meet-the-team URL or one whose html says
\* "meet the team"), the people td_fetch_people returns are those it returns
\* for the page cut before the stop marker: no line after the marker
\* contributes to a record
C7_NothingAfterStopMarker ==
    (td_out.ran /\ (td_page.html_meet \/ td_page.final_url[Len(td_page.final_url)]
                                            = "meet-the-team.htm")) =>
        td_out.people = td_fetch_people(BeforeStopMarker(td_page))

(***************************************************************************)
(* Specification SpecRoster: td_fetch_people on meet-the-team pages whose  *)
(* lines include "Photo" lines, social markers and stop markers.           *)
(***************************************************************************)

MaxRosterLines == 4

RosterLines ==
    {JaneDoe, JohnRoe, <<"jane@x.com">>, <<"Photo">>, <<"Social", " ", "Links">>,
     <<"Additional", " ", "TD", " ", "Specialists">>}

InitRoster ==
    /\ mode = "td"
    /\ td_page \in [final_url : {<<"https", ":", "/", "/", "advisors.td.com", "/", "doe-group",
                                  "/", "meet-the-team.htm">>},
                    has_h1 : {FALSE}, html_meet : BOOLEAN,
                    strings : SeqsUpTo(RosterLines, MaxRosterLines)]
    /\ td_out = [ran |-> FALSE, people |-> <<>>, entries |-> <<>>]
    /\ Idle({"td"})

SpecRoster == InitRoster /\ [][NextTd]_vars

\* the lines before the first stop marker that are neither a social marker
\* nor "photo"
KeptLines(strings) ==
    SelectSeq(Slice(strings, 1, FirstOf(strings, TD_STOP_MARKERS, 1) - 1),
              LAMBDA x : Lower(Strip(x)) \notin TD_SOCIAL_MARKERS /\ Lower(x) # <<"photo">>)

\* C29: the buffers of the segmenter, one after the other, are the lines
\* before the first stop marker without the social-marker lines and the
\* "photo" lines, in their order; no buffer is empty; the people of the page
\* come from different buffers, in the order of the buffers, each with the
\* name of its buffer
C29_SegmenterPartitions ==
    (mode = "td" /\ td_out.ran) =>
        /\ Flatten(td_out.entries) = KeptLines(td_page.strings)
        /\ \A e \in 1..Len(td_out.entries) : td_out.entries[e] # <<>>
        /\ \E f \in [1..Len(td_out.people) -> 1..Len(td_out.entries)] :
              /\ \A i, j \in 1..Len(td_out.people) : i < j => f[i] < f[j]
              /\ \A i \in 1..Len(td_out.people) :
                    td_out.people[i].advisor_name = BufferName(td_out.entries[f[i]])

\* a page of a name, an e-mail, a "Photo" line and a second name: two
\* buffers, the "Photo" line in neither
C29_Witness ==
    /\ mode = "td" /\ td_out.ran
    /\ Len(td_page.strings) = 4
    /\ td_page.strings[3] = <<"Photo">>
    /\ Len(td_out.entries) = 2
    /\ Len(td_out.entries[1]) = 2 /\ Len(td_out.entries[2]) = 1
    /\ Len(td_out.people) = 2

(***************************************************************************)
(* Specification SpecBuild: the build loop over one TD advisor target and  *)
(* one TD team target, then post_process_directory.  Every fetch succeeds. *)
(***************************************************************************)

\* page_title, for a page whose title is its h1
page_title(page) ==
    IF page.has_h1 /\ page.strings # <<>> THEN page.strings[1] ELSE <<>>

\* to_team_slug of a TD URL: its first path segment, lower-cased
to_team_slug(team_root_url) ==
    IF Split(urlparse(team_root_url).path, {"/"}) = <<>> THEN <<>>
    ELSE Lower(Split(urlparse(team_root_url).path, {"/"})[1])

\* Python's "a or b" on texts and lists
OrElse(a, b) == IF a # <<>> THEN a ELSE b

\* lines 1286-1302 and 1314-1330: the rows of the people of one target
BuildRows(people, team_name, team_slug) ==
    [i \in 1..Len(people) |->
        people[i] @@ [team_name |-> team_name, team_slug |-> team_slug]]

\* the lines of Jane Doe on a page: her name, then a role from roles, any of
\* an e-mail and a phone, and a line from links
JaneLines(roles, links) ==
    {<<JaneDoe>> \o role \o email \o phone \o link :
        role \in roles,
        email \in {<<>>, << <<"jane@x.com">> >>},
        phone \in {<<>>, << <<"514-555-1234">> >>},
        link \in links}

\* an advisor target: the advisor's root page, with the team its "Part of"
\* link names, if it has one
AdvisorTargets ==
    {[td_kind |-> "advisor",
      root |-> [final_url |-> url, has_h1 |-> TRUE, html_meet |-> FALSE, strings |-> lines],
      part_of |-> part] :
        url \in {<<"https", ":", "/", "/", "advisors.td.com", "/", "jane-doe", "/">>,
                 <<"https", ":", "/", "/", "advisors.td.com", "/", "jane-doe">>},
        lines \in JaneLines({<< <<"Senior", " ", "Advisor">> >>}, {<<>>}),
        part \in {[name |-> <<>>, root |-> <<>>],
                  [name |-> <<"Doe", " ", "Group">>,
                   root |-> <<"https", ":", "/", "/", "advisors.td.com", "/", "doe-group",
                              "/">>]}}

\* a team target: the team's root page and the meet-the-team page
\* td_guess_meet_the_team_url finds
TeamTargets ==
    {[td_kind |-> "team",
      root |-> [final_url |-> <<"https", ":", "/", "/", "advisors.td.com", "/", "doe-group",
                                "/">>,
                has_h1 |-> TRUE, html_meet |-> TRUE,
                strings |-> << <<"Doe", " ", "Group">> >>],
      meet |-> [final_url |-> <<"https", ":", "/", "/", "advisors.td.com", "/", "doe-group",
                                "/", "meet-the-team.htm">>,
                has_h1 |-> FALSE, html_meet |-> TRUE, strings |-> lines \o tail]] :
        lines \in JaneLines({<<>>, << <<"Senior", " ", "Advisor">> >>},
                            {<<>>, << <<"/", "/", "advisors.td.com", "/", "jane-doe",
                                        "/">> >>}),
        tail \in {<<>>, <<JohnRoe, <<"john@x.com">> >>}}

InitBuild ==
    /\ mode = "build"
    /\ \E a \in AdvisorTargets, t \in TeamTargets : chosen \in {<<a, t>>, <<t, a>>}
    /\ df_out = <<>>
    /\ drop_no_contact \in BOOLEAN
    /\ df_clean = [ran |-> FALSE, rows |-> <<>>]
    /\ Idle({"recon", "build"})

\* lines 1277-1302: the loop body for a TD advisor target
build_td_advisor ==
    /\ mode \in {"build", "run"}
    /\ chosen # <<>>
    /\ Head(chosen).td_kind = "advisor"
    /\ df_out' = df_out \o BuildRows(
          td_fetch_people(Head(chosen).root),
          OrElse(Head(chosen).part_of.name,
                 OrElse(page_title(Head(chosen).root),
                        to_team_slug(Head(chosen).root.final_url))),
          to_team_slug(OrElse(Head(chosen).part_of.root, Head(chosen).root.final_url)))
    /\ chosen' = Tail(chosen)
    /\ UNCHANGED <<mode, politeVars, urlVars, fetchVars, textVars, td_page, td_out,
                   drop_no_contact, df_clean>>

\* lines 1305-1330: the loop body for a TD team target
build_td_team ==
    /\ mode \in {"build", "run"}
    /\ chosen # <<>>
    /\ Head(chosen).td_kind = "team"
    /\ df_out' = df_out \o BuildRows(
          OrElse(td_fetch_people(Head(chosen).meet), td_fetch_people(Head(chosen).root)),
          OrElse(page_title(Head(chosen).root), to_team_slug(Head(chosen).root.final_url)),
          to_team_slug(Head(chosen).root.final_url))
    /\ chosen' = Tail(chosen)
    /\ UNCHANGED <<mode, politeVars, urlVars, fetchVars, textVars, td_page, td_out,
                   drop_no_contact, df_clean>>

NextBuild ==
    \/ build_td_advisor /\ UNCHANGED uiVars
    \/ build_td_team /\ UNCHANGED uiVars
    \/ post_process_directory /\ UNCHANGED uiVars

SpecBuild == InitBuild /\ [][NextBuild]_vars

\* the rows of rs that hold Jane Doe
JaneRows(rs) == {i \in 1..Len(rs) : canon_name(rs[i].advisor_name) = <<"jane", "doe">>}

\* C3: when the run extracted Jane Doe once from her advisor profile page and
\* once from a team's meet-the-team page, then (with the no-contact filter
\* off) the output has exactly one row for her, and its team_name lists the
\* teams of both rows
C3_ProfileAndRosterMerged ==
    (/\ mode = "build"
     /\ df_clean.ran
     /\ ~drop_no_contact
     /\ \E i, j \in JaneRows(df_out) : /\ df_out[i].source = "td_profile"
                                       /\ df_out[j].source = "td_meet_the_team")
    => /\ Cardinality(JaneRows(df_clean.rows)) = 1
       /\ \A k \in JaneRows(df_clean.rows) : \A i \in JaneRows(df_out) :
             \E n \in 1..Len(df_clean.rows[k].team_name) :
                Slice(df_clean.rows[k].team_name, n, n + Len(df_out[i].team_name) - 1)
                    = df_out[i].team_name

(***************************************************************************)
(* Discovery: from a seed page to candidate targets.                       *)
(***************************************************************************)

\* the host names of the model that contain domain as a substring
HostsContaining(domain) ==
    CASE domain = "advisors.td.com" -> {"advisors.td.com", "advisors.td.com.evil.example"}
      [] domain = "desjardins.com" -> {"www.desjardins.com", "desjardins.com.evil.example"}
      [] OTHER -> {domain}

\* domain in (urlparse(u).netloc or "").lower()
HostHas(domain, url) ==
    Range(Lower(urlparse(url).netloc)) \cap HostsContaining(domain) # {}

is_td_url(url) == HostHas("advisors.td.com", url)

is_desjardins_url(url) == HostHas("desjardins.com", url)

\* case-insensitive host comparison
same_domain(a, b) == Lower(urlparse(a).netloc) = Lower(urlparse(b).netloc)

\* scheme://netloc/ followed by the first segment of the path, if it has one
td_root_from_any_td_url(url) ==
    urlparse(url).scheme \o <<":", "/", "/">> \o urlparse(url).netloc \o <<"/">>
    \o (IF Split(urlparse(url).path, {"/"}) = <<>> THEN <<>>
        ELSE Split(urlparse(url).path, {"/"})[1] \o <<"/">>)

\* exactly one non-empty segment in the path
td_is_one_segment_root(url) == Len(Split(urlparse(url).path, {"/"})) = 1

\* The rows as they are, no row dropped.
KeepDuplicates(rows, cols) == rows

RECURSIVE DropDuplicates(_, _)
\* df.drop_duplicates(subset=cols): the first row of each combination of cols
DropDuplicates(rows, cols) ==
    IF rows = <<>> THEN <<>>
    ELSE <<rows[1]>>
         \o DropDuplicates(SelectSeq(Tail(rows),
                                     LAMBDA r : \E c \in cols : r[c] # rows[1][c]),
                           cols)

\* lines 290-303: of the links under a heading, the one-segment roots of the
\* TD links, the first of each root (compared in lower case)
td_extract_links_under_heading(links) ==
    LET roots == [i \in 1..Len(links) |->
                     [text |-> links[i].text,
                      url |-> td_root_from_any_td_url(norm_url(links[i].url)),
                      td |-> is_td_url(norm_url(links[i].url)),
                      k |-> Lower(td_root_from_any_td_url(norm_url(links[i].url)))]]
    IN DropDuplicates(SelectSeq(roots, LAMBDA l : l.td /\ td_is_one_segment_root(l.url)),
                      {"k"})

\* a row of the candidate table
Candidate(seed_url, url, text, kind) ==
    [branch_seed_url |-> seed_url, team_root_url |-> url, link_text |-> text,
     td_kind |-> kind]

\* the rows of a list of links, all of one kind
CandidateRows(seed_url, links, kind) ==
    [i \in 1..Len(links) |-> Candidate(seed_url, links[i].url, links[i].text, kind)]

\* discover_td_targets, given the page polite_get(seed_url) returned
discover_td_targets(seed_url, page) ==
    IF page.directory
    THEN DropDuplicates(
            CandidateRows(seed_url, td_extract_links_under_heading(page.advisors), "advisor")
            \o CandidateRows(seed_url, td_extract_links_under_heading(page.teams), "team"),
            {"team_root_url", "td_kind"})
    ELSE <<Candidate(seed_url, td_root_from_any_td_url(page.final_url), <<"seed">>,
                     IF page.part_of THEN "advisor" ELSE "team")>>

\* extract_links: the anchors of a page, their URLs absolute and normalized
extract_links(links) ==
    [i \in 1..Len(links) |-> [text |-> links[i].text, url |-> norm_url(links[i].url)]]

\* DESJARDINS_TEAM_LINK_RE.search(path): the path ends in
\* /find-us/desjardins-securities-team/<name>.html, in any case
DESJARDINS_TEAM_LINK_RE(path) ==
    /\ Len(path) >= 6
    /\ Lower(Slice(path, Len(path) - 5, Len(path) - 1))
          = <<"/", "find-us", "/", "desjardins-securities-team", "/">>
    /\ Lower(path)[Len(path)] \in {"team-a.html", "team-b.html", "contact.html"}

\* lines 620-628: the links of a Desjardins page that are team pages, with
\* the link text stripped, or the URL for a link without text
DesjardinsTeamLinks(links) ==
    SelectSeq([i \in 1..Len(links) |->
                  [text |-> OrElse(Strip(links[i].text), links[i].url),
                   url |-> links[i].url]],
              LAMBDA l : /\ is_desjardins_url(l.url)
                         /\ DESJARDINS_TEAM_LINK_RE(urlparse(l.url).path)
                         /\ Slice(Lower(l.text), 1, 3) # <<"view", " ", "profile">>)

\* discover_desjardins_team_pages, given the page polite_get(seed_url) returned
discover_desjardins_team_pages(seed_url, page) ==
    DropDuplicates(
        (IF DESJARDINS_TEAM_LINK_RE(urlparse(page.final_url).path)
         THEN <<Candidate(seed_url, norm_url(page.final_url), <<"seed">>, "")>> ELSE <<>>)
        \o CandidateRows(seed_url, DesjardinsTeamLinks(extract_links(page.links)), ""),
        {"team_root_url"})

\* branch_slug_from_url
branch_slug_from_url(url) ==
    LET parts == Split(urlparse(url).path, {"/"})
    IN IF Len(parts) >= 2 /\ Lower(parts[1]) = <<"web">> THEN Lower(parts[2]) ELSE <<>>

\* the path segments is_true_team_root refuses
StopSegments ==
    {<<"web">>, <<"home">>, <<"contact">>, <<"services">>, <<"produits">>, <<"products">>}

\* is_true_team_root
is_true_team_root(url, branch_slug) ==
    LET parts == Split(urlparse(url).path, {"/"})
    IN /\ Len(parts) = 1
       /\ ~(branch_slug # <<>> /\ Lower(parts[1]) = branch_slug)
       /\ Lower(parts[1]) \notin StopSegments

\* "our-investment-advisors-and-their-teams" in url.lower()
IsListing(url) == Has(Lower(url), "our-investment-advisors-and-their-teams")

\* lines 671-679: the page whose links are read, the seed's page or the page
\* behind its first link to the advisors-and-teams listing
ListingPage(page) ==
    IF ~IsListing(page.final_url)
       /\ \E i \in 1..Len(page.links) : IsListing(norm_url(page.links[i].url))
    THEN page.listing ELSE page

\* lines 681-692: the same-domain team roots among the links of a page
TeamRootRows(seed_url, page) ==
    DropDuplicates(
        CandidateRows(seed_url,
                      SelectSeq(extract_links(page.links),
                                LAMBDA l : /\ same_domain(l.url, page.final_url)
                                           /\ is_true_team_root(
                                                 l.url, branch_slug_from_url(page.final_url))),
                      ""),
        {"team_root_url"})

\* discover_team_roots_from_branch, given the pages its fetches returned
discover_team_roots_from_branch(seed_url, page) ==
    IF is_td_url(seed_url) THEN discover_td_targets(seed_url, page)
    ELSE IF is_desjardins_url(seed_url) THEN discover_desjardins_team_pages(seed_url, page)
    ELSE TeamRootRows(seed_url, ListingPage(page))

(***************************************************************************)
(* Specification SpecDiscover: the Discover handler over bounded lists of  *)
(* seeds of the three site families.                                       *)
(***************************************************************************)

MaxSeeds == 2

Https(host, path) == <<"https", ":", "/", "/", host>> \o path

Link(text, url) == [text |-> text, url |-> url]

TdHome == Https("advisors.td.com", <<"/", "montreal1", "/">>)
TdJane == Https("advisors.td.com", <<"/", "jane-doe", "/">>)
WgHome == Https("woodgundyadvisors.cibc.com", <<"/", "web", "/", "montreal">>)
WgListing ==
    Https("woodgundyadvisors.cibc.com",
          <<"/", "web", "/", "montreal", "/", "our-investment-advisors-and-their-teams">>)
DjTeams == <<"/", "find-us", "/", "desjardins-securities-team", "/">>

LinkJane == Link(JaneDoe, TdJane)
LinkSocial == Link(<<"Social", " ", "Links">>, Https("www.linkedin.com", <<"/", "in", "/">>))

\* a page as the discovery strategies read it
SeedPage(final_url, directory, advisors, teams, part_of, links, listing) ==
    [final_url |-> final_url, directory |-> directory, advisors |-> advisors,
     teams |-> teams, part_of |-> part_of, links |-> links, listing |-> listing]

NoPage == [final_url |-> <<>>, links |-> <<>>]

\* TD seeds: a directory page with links under its Advisors and Teams
\* headings, an advisor's or a team's own root, and a seed whose fetch raises
TdSeeds ==
    {[url |-> TdHome, raises |-> FALSE,
      page |-> SeedPage(TdHome, TRUE, a, t, FALSE, <<>>, NoPage)] :
        a \in {<<LinkJane>>,
               <<LinkJane,
                 Link(JaneDoe, Https("advisors.td.com", <<"/", "Jane-Doe", "/", "#", "top">>))>>,
               <<Link(<<"Contact">>, Https("advisors.td.com", <<"/", "contact", "/">>)),
                 Link(JaneDoe, Https("advisors.td.com.evil.example", <<"/", "jane-doe", "/">>))>>,
               <<LinkSocial,
                 Link(<<"Doe", " ", "Group">>,
                      Https("advisors.td.com", <<"/", "doe-group", "/", "meet-the-team.htm">>))>>},
        t \in {<<>>, <<LinkJane>>,
               <<Link(<<"Doe", " ", "Group">>,
                      Https("advisors.td.com", <<"/", "doe-group", "/">>))>>}}
    \cup
    {[url |-> TdJane, raises |-> FALSE,
      page |-> SeedPage(TdJane, FALSE, <<>>, <<>>, p, <<>>, NoPage)] : p \in BOOLEAN}
    \cup
    {[url |-> TdHome, raises |-> TRUE,
      page |-> SeedPage(<<>>, FALSE, <<>>, <<>>, FALSE, <<>>, NoPage)]}

\* Desjardins seeds: a team page or a branch page, with links to team pages,
\* to a profile, to another site
DesjardinsSeeds ==
    {[url |-> Https("www.desjardins.com", path), raises |-> FALSE,
      page |-> SeedPage(Https("www.desjardins.com", path), FALSE, <<>>, <<>>, FALSE, l, NoPage)] :
        path \in {DjTeams \o <<"team-a.html">>, <<"/", "find-us", "/">>},
        l \in {<<Link(<<"Roe", " ", "Team">>,
                      Https("www.desjardins.com", DjTeams \o <<"team-b.html", "?", "q">>)),
                 Link(<<"View", " ", "Profile">>,
                      Https("www.desjardins.com", DjTeams \o <<"team-a.html">>))>>,
               <<Link(<<>>, Https("desjardins.com.evil.example", DjTeams \o <<"team-b.html">>)),
                 LinkSocial>>,
               <<Link(<<"Contact">>, Https("www.desjardins.com", DjTeams \o <<"contact.html">>)),
                 Link(<<"Roe", " ", "Team">>,
                      Https("www.desjardins.com", DjTeams \o <<"team-b.html">>))>>}}

\* the links of a Wood Gundy listing
WgLinks ==
    {<<Link(<<"Roe", " ", "Team">>, Https("woodgundyadvisors.cibc.com", <<"/", "roe-team">>)),
       Link(<<"Contact">>, Https("woodgundyadvisors.cibc.com", <<"/", "contact">>))>>,
     <<LinkSocial,
       Link(<<"Home">>, Https("woodgundyadvisors.cibc.com", <<"/", "montreal">>)),
       Link(<<"Roe", " ", "Team">>, Https("woodgundyadvisors.cibc.com", <<"/", "roe-team">>))>>}

\* Wood Gundy seeds: the listing itself, or a branch page that links to it
WgSeeds ==
    {[url |-> WgListing, raises |-> FALSE,
      page |-> SeedPage(WgListing, FALSE, <<>>, <<>>, FALSE, l, NoPage)] : l \in WgLinks}
    \cup
    {[url |-> WgHome, raises |-> FALSE,
      page |-> SeedPage(WgHome, FALSE, <<>>, <<>>, FALSE,
                        <<LinkSocial, Link(<<"Our", " ", "Team">>, WgListing)>>,
                        [final_url |-> WgListing, links |-> l])] : l \in WgLinks}

SeedSet == TdSeeds \cup DesjardinsSeeds \cup WgSeeds

InitDiscover ==
    /\ mode = "discover"
    /\ ui = "discover"
    /\ seeds \in SeqsUpTo(SeedSet, MaxSeeds) \ {<<>>}
    /\ seed_no = 1
    /\ dfs = <<>>
    /\ errors = <<>>
    /\ df_candidates = [set |-> FALSE, rows |-> <<>>]
    /\ edited_candidates = [set |-> FALSE, rows |-> <<>>]
    /\ errs_build = [set |-> FALSE, rows |-> <<>>]
    /\ max_targets = 0
    /\ errs = <<>>
    /\ visited = <<>>
    /\ Idle({"ui"})

\* lines 1187-1191: one pass of the loop over the seeds
discover_seed ==
    /\ mode \in {"discover", "run"}
    /\ ui = "discover"
    /\ seed_no <= Len(seeds)
    /\ IF seeds[seed_no].raises
       THEN /\ errors' = Append(errors, [seed |-> seeds[seed_no].url, error |-> "error"])
            /\ UNCHANGED dfs
       ELSE /\ dfs' = dfs \o discover_team_roots_from_branch(seeds[seed_no].url,
                                                            seeds[seed_no].page)
            /\ UNCHANGED errors
    /\ seed_no' = seed_no + 1
    /\ UNCHANGED <<mode, politeVars, urlVars, fetchVars, textVars, reconVars, tdVars, ui,
                   seeds, df_candidates, edited_candidates, errs_build, max_targets, errs,
                   visited>>

\* lines 1193-1205 after the loop, and lines 1208-1230 of the same run of the
\* script: the candidates are stored, and shown in the editor when there are any
discover_store ==
    /\ mode \in {"discover", "run"}
    /\ ui = "discover"
    /\ seed_no > Len(seeds)
    /\ LET rows == DropDuplicates(dfs, {"team_root_url", "td_kind"})
           shown == [i \in 1..Len(rows) |-> rows[i] @@ [include |-> TRUE]]
       IN /\ df_candidates' = [set |-> TRUE, rows |-> shown]
          /\ edited_candidates' = [set |-> shown # <<>>, rows |-> shown]
    /\ df_clean' = [ran |-> FALSE, rows |-> <<>>]
    /\ errs_build' = [set |-> TRUE, rows |-> errors]
    /\ ui' = "idle"
    /\ UNCHANGED <<mode, politeVars, urlVars, fetchVars, textVars, tdVars, df_out,
                   drop_no_contact, seeds, seed_no, dfs, errors, max_targets, errs, visited>>

NextDiscover == discover_seed \/ discover_store

SpecDiscover == InitDiscover /\ [][NextDiscover]_vars

\* C17: the candidate list Discover stores has no two rows with the same
\* target URL and the same kind
C17_NoDuplicateTarget ==
    (mode = "discover" /\ df_candidates.set) =>
        \A i, j \in 1..Len(df_candidates.rows) :
            (/\ df_candidates.rows[i].team_root_url = df_candidates.rows[j].team_root_url
             /\ df_candidates.rows[i].td_kind = df_candidates.rows[j].td_kind) => i = j

\* two seeds led to the same target, and one URL is listed once as an advisor
\* and once as a team
C17_Witness ==
    /\ mode = "discover"
    /\ df_candidates.set
    /\ Len(df_candidates.rows) < Len(dfs)
    /\ \E i, j \in 1..Len(df_candidates.rows) :
          /\ df_candidates.rows[i].team_root_url = df_candidates.rows[j].team_root_url
          /\ df_candidates.rows[i].td_kind = "advisor"
          /\ df_candidates.rows[j].td_kind = "team"

\* C18: every candidate has the host (in any case) of the page it was
\* discovered on, the page fetched for its seed
C18_SameHostAsSeedPage ==
    (mode = "discover" /\ df_candidates.set) =>
        \A i \in 1..Len(df_candidates.rows) : \E k \in 1..Len(seeds) :
            /\ seeds[k].url = df_candidates.rows[i].branch_seed_url
            /\ ~seeds[k].raises
            /\ same_domain(df_candidates.rows[i].team_root_url,
                           ListingPage(seeds[k].page).final_url)

\* C20: no candidate is a stop link: none has a refused segment in the path
\* of its URL, or a refused word as its link text
C20_NoStopLink ==
    (mode = "discover" /\ df_candidates.set) =>
        \A i \in 1..Len(df_candidates.rows) :
            /\ Lower(df_candidates.rows[i].link_text) \notin StopSegments
            /\ \A n \in 1..Len(Split(urlparse(df_candidates.rows[i].team_root_url).path, {"/"})) :
                  Lower(Split(urlparse(df_candidates.rows[i].team_root_url).path, {"/"})[n])
                      \notin StopSegments

(***************************************************************************)
(* A session of the page: Clear, Discover, the candidates editor, Build.   *)
(* Each click reruns the script, so the locals of the run before are gone.  *)
(* The targets of a session are TD targets; the crawl of the other sites   *)
(* (lines 1332-1428) is not modelled.                                      *)
(***************************************************************************)

MaxTargets == 2

TdJohn == Https("advisors.td.com", <<"/", "john-roe", "/">>)
TdGroup == Https("advisors.td.com", <<"/", "doe-group", "/">>)

\* the seeds of a session: a directory page that lists its advisors out of
\* alphabetical order, a team's own root, and a seed whose fetch raises
SeedHome ==
    [url |-> TdHome, raises |-> FALSE,
     page |-> SeedPage(TdHome, TRUE, <<Link(JohnRoe, TdJohn), LinkJane>>, <<>>, FALSE, <<>>,
                       NoPage)]

SeedGroup ==
    [url |-> TdGroup, raises |-> FALSE,
     page |-> SeedPage(TdGroup, FALSE, <<>>, <<>>, FALSE, <<>>, NoPage)]

SeedDown ==
    [url |-> TdJane, raises |-> TRUE,
     page |-> SeedPage(<<>>, FALSE, <<>>, <<>>, FALSE, <<>>, NoPage)]

\* the seed lists the user pastes
RunSeedLists ==
    {<<SeedHome>>, <<SeedDown>>, <<SeedGroup, SeedHome>>, <<SeedHome, SeedDown>>,
     <<SeedDown, SeedGroup>>}

\* the pages the build of an advisor target and of a team target fetches
RunAdvisorPages ==
    CHOOSE t \in AdvisorTargets : t.part_of.name = <<>> /\ t.root.final_url = TdJane

RunTeamPages == CHOOSE t \in TeamTargets : Len(t.meet.strings) = 2

\* the atoms of the URLs of a session, in the order of their text; no atom
\* is the beginning of another
UrlAtomOrder ==
    <<"/", ":", "advisors.td.com", "doe-group", "https", "jane-doe", "john-roe", "montreal1">>

AtomRank(a) == CHOOSE i \in 1..Len(UrlAtomOrder) : UrlAtomOrder[i] = a

RECURSIVE StrLess(_, _)
\* a < b for two strings
StrLess(a, b) ==
    IF b = <<>> THEN FALSE
    ELSE IF a = <<>> THEN TRUE
    ELSE IF a[1] = b[1] THEN StrLess(Tail(a), Tail(b))
    ELSE AtomRank(a[1]) < AtomRank(b[1])

\* line 1249: advisors 0, teams 1, any other kind 2
td_ord(kind) == CASE kind = "advisor" -> 0 [] kind = "team" -> 1 [] OTHER -> 2

\* row a sorts before row b by (_ord, branch_seed_url, team_root_url)
RowLess(a, b) ==
    \/ td_ord(a.td_kind) < td_ord(b.td_kind)
    \/ /\ td_ord(a.td_kind) = td_ord(b.td_kind)
       /\ \/ StrLess(a.branch_seed_url, b.branch_seed_url)
          \/ /\ a.branch_seed_url = b.branch_seed_url
             /\ StrLess(a.team_root_url, b.team_root_url)

\* the rows in the order they have
keep_order(rows) == rows

RECURSIVE sort_values(_)
\* line 1250: chosen.sort_values(["_ord", "branch_seed_url", "team_root_url"]);
\* rows that agree in all three keep their order
sort_values(rows) ==
    IF rows = <<>> THEN <<>>
    ELSE LET before == sort_values(SubSeq(rows, 1, Len(rows) - 1))
             r == rows[Len(rows)]
             k == Cardinality({i \in 1..Len(before) : ~RowLess(r, before[i])})
         IN SubSeq(before, 1, k) \o <<r>> \o SubSeq(before, k + 1, Len(before))

\* lines 1243-1250: the included rows, at most max_targets of them, sorted
Included(rows) == SelectSeq(rows, LAMBDA r : r.include)

Selected(rows, n) == SubSeq(Included(rows), 1, IF n < Len(Included(rows)) THEN n ELSE Len(Included(rows)))

Chosen(rows, n) == sort_values(Selected(rows, n))

\* a row of chosen together with what its fetches will return
Target(r, raises) ==
    [branch_seed_url |-> r.branch_seed_url, team_root_url |-> r.team_root_url,
     td_kind |-> r.td_kind, raises |-> raises,
     root |-> IF r.td_kind = "advisor" THEN RunAdvisorPages.root ELSE RunTeamPages.root,
     part_of |-> RunAdvisorPages.part_of, meet |-> RunTeamPages.meet]

\* the row of chosen the loop is at
Visit(t) ==
    [branch_seed_url |-> t.branch_seed_url, team_root_url |-> t.team_root_url,
     td_kind |-> t.td_kind, raises |-> t.raises]

InitRun ==
    /\ mode = "run"
    /\ ui = "idle"
    /\ seeds = <<>>
    /\ seed_no = 1
    /\ dfs = <<>>
    /\ errors = <<>>
    /\ df_candidates = [set |-> FALSE, rows |-> <<>>]
    /\ edited_candidates = [set |-> FALSE, rows |-> <<>>]
    /\ errs_build = [set |-> FALSE, rows |-> <<>>]
    /\ max_targets \in 1..MaxTargets
    /\ errs = <<>>
    /\ visited = <<>>
    /\ chosen = <<>>
    /\ df_out = <<>>
    /\ drop_no_contact = FALSE
    /\ df_clean = [ran |-> FALSE, rows |-> <<>>]
    /\ Idle({"ui", "recon", "build"})

\* lines 1173-1176: Clear
clear_click ==
    /\ mode = "run"
    /\ ui = "idle"
    /\ df_candidates' = [set |-> FALSE, rows |-> <<>>]
    /\ edited_candidates' = [set |-> FALSE, rows |-> <<>>]
    /\ df_clean' = [ran |-> FALSE, rows |-> <<>>]
    /\ errs_build' = [set |-> FALSE, rows |-> <<>>]
    /\ seeds' = <<>> /\ seed_no' = 1 /\ dfs' = <<>> /\ errors' = <<>>
    /\ chosen' = <<>> /\ df_out' = <<>> /\ errs' = <<>> /\ visited' = <<>>
    /\ UNCHANGED <<mode, politeVars, urlVars, fetchVars, textVars, td_page, td_out,
                   drop_no_contact, ui, max_targets>>

\* lines 1179-1185: Discover is clicked with seed URLs in the text area
discover_click ==
    /\ mode = "run"
    /\ ui = "idle"
    /\ seeds' \in RunSeedLists
    /\ seed_no' = 1 /\ dfs' = <<>> /\ errors' = <<>>
    /\ chosen' = <<>> /\ df_out' = <<>> /\ errs' = <<>> /\ visited' = <<>>
    /\ ui' = "discover"
    /\ UNCHANGED <<mode, politeVars, urlVars, fetchVars, textVars, td_page, td_out,
                   drop_no_contact, df_clean, df_candidates, edited_candidates, errs_build,
                   max_targets>>

\* lines 1225-1230: the user ticks or unticks a row of the editor
edit_include ==
    /\ mode = "run"
    /\ ui = "idle"
    /\ edited_candidates.set
    /\ \E i \in 1..Len(edited_candidates.rows) :
          edited_candidates' =
              [edited_candidates EXCEPT !.rows[i].include = ~edited_candidates.rows[i].include]
    /\ seeds' = <<>> /\ seed_no' = 1 /\ dfs' = <<>> /\ errors' = <<>>
    /\ chosen' = <<>> /\ df_out' = <<>> /\ errs' = <<>> /\ visited' = <<>>
    /\ UNCHANGED <<mode, politeVars, urlVars, fetchVars, textVars, td_page, td_out,
                   drop_no_contact, df_clean, ui, df_candidates, errs_build, max_targets>>

\* lines 1243-1263: Build is clicked
build_click ==
    /\ mode = "run"
    /\ ui = "idle"
    /\ edited_candidates.set
    /\ edited_candidates.rows # <<>>
    /\ \E raises \in [1..Len(Chosen(edited_candidates.rows, max_targets)) -> BOOLEAN] :
          chosen' = [i \in 1..Len(Chosen(edited_candidates.rows, max_targets)) |->
                        Target(Chosen(edited_candidates.rows, max_targets)[i], raises[i])]
    /\ df_out' = <<>> /\ errs' = <<>> /\ visited' = <<>>
    /\ seeds' = <<>> /\ seed_no' = 1 /\ dfs' = <<>> /\ errors' = <<>>
    /\ ui' = "build"
    /\ UNCHANGED <<mode, politeVars, urlVars, fetchVars, textVars, td_page, td_out,
                   drop_no_contact, df_clean, df_candidates, edited_candidates, errs_build,
                   max_targets>>

\* lines 1268-1302: the loop is at an advisor target
run_td_advisor ==
    /\ ui = "build"
    /\ chosen # <<>>
    /\ ~Head(chosen).raises
    /\ build_td_advisor
    /\ visited' = Append(visited, Visit(Head(chosen)))
    /\ UNCHANGED <<ui, seeds, seed_no, dfs, errors, df_candidates, edited_candidates,
                   errs_build, max_targets, errs>>

\* lines 1268-1330: the loop is at a team target
run_td_team ==
    /\ ui = "build"
    /\ chosen # <<>>
    /\ ~Head(chosen).raises
    /\ build_td_team
    /\ visited' = Append(visited, Visit(Head(chosen)))
    /\ UNCHANGED <<ui, seeds, seed_no, dfs, errors, df_candidates, edited_candidates,
                   errs_build, max_targets, errs>>

\* the targets that are left are skipped and nothing is recorded
run_raise_aborts ==
    /\ mode = "run"
    /\ ui = "build"
    /\ chosen # <<>>
    /\ Head(chosen).raises
    /\ chosen' = <<>>
    /\ visited' = Append(visited, Visit(Head(chosen)))
    /\ UNCHANGED <<mode, politeVars, urlVars, fetchVars, textVars, td_page, td_out, df_out,
                   drop_no_contact, df_clean, ui, seeds, seed_no, dfs, errors, df_candidates,
                   edited_candidates, errs_build, max_targets, errs>>

\* rows of the target are in the table when its fetch raises
run_raise_keeps_rows ==
    /\ mode = "run"
    /\ ui = "build"
    /\ chosen # <<>>
    /\ Head(chosen).raises
    /\ errs' = Append(errs, [team_root_url |-> Head(chosen).team_root_url, error |-> "error"])
    /\ df_out' = df_out \o BuildRows(td_fetch_people(Head(chosen).root), <<>>, <<>>)
    /\ chosen' = Tail(chosen)
    /\ visited' = Append(visited, Visit(Head(chosen)))
    /\ UNCHANGED <<mode, politeVars, urlVars, fetchVars, textVars, td_page, td_out,
                   drop_no_contact, df_clean, ui, seeds, seed_no, dfs, errors, df_candidates,
                   edited_candidates, errs_build, max_targets>>

\* lines 1430-1431: a fetch of the target raises; except Exception appends to
\* errs and the loop goes on
run_raise ==
    /\ mode = "run"
    /\ ui = "build"
    /\ chosen # <<>>
    /\ Head(chosen).raises
    /\ errs' = Append(errs, [team_root_url |-> Head(chosen).team_root_url, error |-> "error"])
    /\ chosen' = Tail(chosen)
    /\ visited' = Append(visited, Visit(Head(chosen)))
    /\ UNCHANGED <<mode, politeVars, urlVars, fetchVars, textVars, td_page, td_out, df_out,
                   drop_no_contact, df_clean, ui, seeds, seed_no, dfs, errors, df_candidates,
                   edited_candidates, errs_build, max_targets>>

\* lines 1435-1439: after the loop
run_finish ==
    /\ ui = "build"
    /\ post_process_directory
    /\ errs_build' = [set |-> TRUE, rows |-> errs]
    /\ ui' = "idle"
    /\ UNCHANGED <<seeds, seed_no, dfs, errors, df_candidates, edited_candidates,
                   max_targets, errs, visited>>

\* the steps of the two handlers
HandlerSteps ==
    \/ discover_seed \/ discover_store
    \/ run_td_advisor \/ run_td_team \/ run_raise \/ run_finish

NextRun == clear_click \/ discover_click \/ edit_include \/ build_click \/ HandlerSteps

SpecRun == InitRun /\ [][NextRun]_vars

\* the script does not halt in the middle of a run: steps keep being taken
SpecRunFair == SpecRun /\ []<><<TRUE>>_vars

\* the columns that name a target
TargetOf(r) ==
    [branch_seed_url |-> r.branch_seed_url, team_root_url |-> r.team_root_url,
     td_kind |-> r.td_kind]

\* the targets of a build run, in the order of the curated list
Curated == Selected(edited_candidates.rows, max_targets)

\* a build run is under way, or it has ended and the page was not touched since
InBuildRun == mode = "run" /\ (ui = "build" \/ visited # <<>>)

\* the targets visited and the targets still to come are the targets of the
\* run, each once
EachTargetOnce ==
    /\ Len(visited) + Len(chosen) = Len(Curated)
    /\ {TargetOf(visited[i]) : i \in 1..Len(visited)}
          \cup {TargetOf(chosen[i]) : i \in 1..Len(chosen)}
       = {TargetOf(Curated[i]) : i \in 1..Len(Curated)}

\* every target of the run was visited or is still to come, each once; every
\* target that raised has an entry in errs with its URL
TargetsIsolated ==
    InBuildRun =>
        /\ EachTargetOnce
        /\ \A i \in 1..Len(visited) :
              visited[i].raises =>
                  \E k \in 1..Len(errs) : errs[k].team_root_url = visited[i].team_root_url

\* every seed the loop has passed and that raised has an entry in errors; when
\* the handler has ended, the targets of every seed that did not raise are
\* among the candidates
SeedsIsolated ==
    (mode = "run" /\ seeds # <<>>) =>
        /\ \A k \in 1..(seed_no - 1) :
              seeds[k].raises => \E e \in 1..Len(errors) : errors[e].seed = seeds[k].url
        /\ ui = "idle" =>
              \A k \in 1..Len(seeds) :
                 ~seeds[k].raises =>
                     \A r \in Range(discover_team_roots_from_branch(seeds[k].url, seeds[k].page)) :
                        \E c \in Range(df_candidates.rows) :
                           /\ c.team_root_url = r.team_root_url
                           /\ c.td_kind = r.td_kind

\* C14: in a build run a target whose processing raises gets an entry in errs
\* with its URL and the targets after it are still processed; a seed whose
\* discovery raises gets an entry in errors and the other seeds' targets
\* become candidates; a build run that was started reaches
\* post_process_directory, a discovery that was started stores its candidates
C14_FailureIsolated ==
    /\ [](TargetsIsolated /\ SeedsIsolated)
    /\ (ui = "build") ~> (ui = "idle" /\ df_clean.ran)
    /\ (ui = "discover") ~> (ui = "idle" /\ df_candidates.set)

\* a build run has ended whose first target raised and whose second target
\* was processed after it
C14_Witness ==
    /\ mode = "run" /\ ui = "idle" /\ df_clean.ran
    /\ Len(visited) >= 2 /\ visited[1].raises /\ ~visited[2].raises
    /\ Len(errs) = 1 /\ df_out # <<>>

\* the targets visited so far that raised
Raised == {i \in 1..Len(visited) : visited[i].raises}

Displayed == IF df_clean.ran /\ errs_build.set THEN errs_build.rows ELSE <<>>

\* the URL an entry of an error list carries
EntryUrl(e) == IF "seed" \in DOMAIN e THEN e.seed ELSE e.team_root_url

\* C15: when a handler has ended, the error list the page shows holds an
\* entry with the URL of every seed whose discovery raised and of every target
\* whose extraction raised in that run
C15_EveryErrorShown ==
    (mode = "run" /\ ui = "idle") =>
        /\ \A i \in 1..Len(errors) :
              \E d \in 1..Len(Displayed) : EntryUrl(Displayed[d]) = errors[i].seed
        /\ \A i \in 1..Len(errs) :
              \E d \in 1..Len(Displayed) : EntryUrl(Displayed[d]) = errs[i].team_root_url

\* C19, as the claim states it: the targets of a build run are visited in the
\* order they have in the curated list
C19_CuratedOrder ==
    InBuildRun =>
        \A i \in 1..Len(visited) :
           i <= Len(Curated) /\ TargetOf(visited[i]) = TargetOf(Curated[i])

RECURSIVE TablesOf(_)
\* the tables of the seeds of a list that do not raise, one after the other
TablesOf(ss) ==
    IF ss = <<>> THEN <<>>
    ELSE (IF ss[1].raises THEN <<>>
          ELSE discover_team_roots_from_branch(ss[1].url, ss[1].page))
         \o TablesOf(Tail(ss))

\* C19: discovery takes the seeds one at a time in list order; a build run
\* visits the included rows of the curated list, truncated to max_targets,
\* each once, advisors before teams before other kinds, then by seed URL, then
\* by target URL
C19_SortedOrder ==
    /\ (mode = "run" /\ seeds # <<>>) => dfs = TablesOf(SubSeq(seeds, 1, seed_no - 1))
    /\ InBuildRun =>
          /\ EachTargetOnce
          /\ \A i, j \in 1..Len(visited) : i < j => ~RowLess(visited[j], visited[i])

\* a build run has ended that visited a team after an advisor the curated
\* list has behind it
C19_Witness ==
    /\ mode = "run" /\ ui = "idle" /\ df_clean.ran
    /\ Len(visited) = 2
    /\ TargetOf(visited[1]) = TargetOf(Curated[2])
    /\ TargetOf(visited[2]) = TargetOf(Curated[1])

(***************************************************************************)
(* Specification SpecOther: the body of the build loop for a target that   *)
(* is not a TD target (lines 1335-1427), with the generic extractor.       *)
(***************************************************************************)

\* normalize_name
normalize_name(raw) == BeforeComma(Strip(CollapseSpaces(raw, 1)))

\* s.isupper(): s has a cased character and no lower-case one
IsUpperText(s) ==
    /\ \E i \in 1..Len(s) : IsWord(s[i])
    /\ \A i \in 1..Len(s) : IsWord(s[i]) => s[i] \in {"TD", "HTTP", "X", "JANE", "COM"}

\* looks_like_name
looks_like_name(name) ==
    /\ Strip(name) # <<>>
    /\ Lower(Strip(name)) \notin JUNK_PHRASES
    /\ ~(IsUpperText(Strip(name)) /\ Len(Split(Strip(name), SpaceAtoms)) >= 2)
    /\ Len(Split(Strip(name), SpaceAtoms)) >= 2
    /\ Len(Split(Strip(name), SpaceAtoms)) <= 6
    /\ \A i \in 1..Len(Split(Strip(name), SpaceAtoms)) :
          ~(/\ Len(Split(Strip(name), SpaceAtoms)[i]) = 1
            /\ LowerAtom(Split(Strip(name), SpaceAtoms)[i][1]) \in ROLE_WORDS)
    /\ ~HasEmail(Strip(name))
    /\ ~HasPhone(Strip(name))
    /\ IsWord(Strip(name)[1])

\* lines 803-807: the text of the first of the next six siblings that
\* is_likely_role accepts
SiblingRole(siblings, name) ==
    IF \E i \in 1..Len(Slice(siblings, 1, 6)) : is_likely_role(siblings[i], name)
    THEN siblings[CHOOSE i \in 1..Len(Slice(siblings, 1, 6)) :
                     /\ is_likely_role(siblings[i], name)
                     /\ \A j \in 1..(i - 1) : ~is_likely_role(siblings[j], name)]
    ELSE <<>>

\* lines 790-822: the person of one heading; the href of the anchor inside the
\* heading is absolute in the pages here, so urljoin gives it back
HeadingPerson(h) ==
    [advisor_name |-> normalize_name(h.text),
     advisor_role |-> SiblingRole(h.siblings, normalize_name(h.text)),
     advisor_profile_url |-> IF h.href = <<>> THEN <<>> ELSE norm_url(h.href),
     source |-> "heuristic_block"]
    @@ extract_contact_from_block(h.block)

\* lines 824-832: the key of the dedupe
SeenKey(q) == <<Lower(q.advisor_name), Lower(q.advisor_email), q.advisor_phone>>

RECURSIVE FirstOfEachSeen(_)
FirstOfEachSeen(people) ==
    IF people = <<>> THEN <<>>
    ELSE <<people[1]>>
         \o FirstOfEachSeen(SelectSeq(Tail(people),
                                      LAMBDA q : SeenKey(q) # SeenKey(people[1])))

\* extract_people_from_page: the h2-h5 headings whose text looks like a name
extract_people_from_page(page) ==
    FirstOfEachSeen(
        [i \in 1..Len(SelectSeq(page.headings,
                                LAMBDA h : looks_like_name(normalize_name(h.text)))) |->
            HeadingPerson(SelectSeq(page.headings,
                                    LAMBDA h : looks_like_name(normalize_name(h.text)))[i])])

\* fetch_people
fetch_people(page) ==
    IF is_td_url(page.final_url) THEN td_fetch_people(page)
    ELSE extract_people_from_page(page)

\* a contact-page value replaces the value the team page gave
FillOver(q, cp) ==
    [fld \in DOMAIN q |->
        IF fld \in {"advisor_email", "advisor_phone", "advisor_address", "advisor_role",
                    "advisor_profile_url"} /\ cp[fld] # <<>>
        THEN cp[fld] ELSE q[fld]]

\* lines 1375-1381: the fields of q that are empty take the contact-page
\* person's value; the role only when is_likely_role accepts it
Fill(q, cp) ==
    [fld \in DOMAIN q |->
        IF fld = "advisor_role"
        THEN IF q[fld] = <<>> /\ is_likely_role(cp[fld], cp.advisor_name)
             THEN cp[fld] ELSE q[fld]
        ELSE IF fld \in {"advisor_email", "advisor_phone", "advisor_address",
                         "advisor_profile_url"} /\ q[fld] = <<>> /\ cp[fld] # <<>>
        THEN cp[fld] ELSE q[fld]]

\* line 1369: by_name[k], the last person of the team page with that
\* canonical name; 0 when k is not in by_name
ByName(team_people, k) ==
    IF \E i \in 1..Len(team_people) :
          team_people[i].advisor_name # <<>> /\ canon_name(team_people[i].advisor_name) = k
    THEN CHOOSE i \in 1..Len(team_people) :
            /\ team_people[i].advisor_name # <<>>
            /\ canon_name(team_people[i].advisor_name) = k
            /\ \A j \in (i + 1)..Len(team_people) :
                  ~(/\ team_people[j].advisor_name # <<>>
                    /\ canon_name(team_people[j].advisor_name) = k)
    ELSE 0

RECURSIVE merge_contact(_, _, _)
\* lines 1370-1383: the loop over contact_people; by_name is made from the
\* team page's people before the loop
merge_contact(people, team_people, contact_people) ==
    IF contact_people = <<>> THEN people
    ELSE merge_contact(
             IF canon_name(contact_people[1].advisor_name) = <<>> THEN people
             ELSE IF ByName(team_people, canon_name(contact_people[1].advisor_name)) # 0
             THEN [people EXCEPT
                      ![ByName(team_people, canon_name(contact_people[1].advisor_name))] =
                          Fill(@, contact_people[1])]
             ELSE Append(people, contact_people[1]),
             team_people, Tail(contact_people))

\* a heading of a page with its next siblings, the text lines of its block
\* and the href of the anchor inside it
Heading(text, siblings, block, href) ==
    [text |-> text, siblings |-> siblings, block |-> block, href |-> href]

OtherRoot == <<"https", ":", "/", "/", "www.example.ca", "/", "doe-group", "/">>

OtherUrl(seg) == OtherRoot \o <<seg>>

\* a page that is not a TD page: its title, the Person objects of its
\* structured data and its h2-h5 headings
OtherPage(url, title, ld_persons, headings) ==
    [final_url |-> url, has_h1 |-> TRUE, html_meet |-> FALSE,
     strings |-> <<title>>, ld_persons |-> ld_persons, headings |-> headings]

\* no link to such a page was found
NoLink ==
    [final_url |-> <<>>, has_h1 |-> FALSE, html_meet |-> FALSE, strings |-> <<>>,
     ld_persons |-> <<>>, headings |-> <<>>]

SarahDoe == <<"Sarah", " ", "Doe">>

LdSarah ==
    [type |-> "Person", name |-> SarahDoe, jobTitle |-> SeniorAdvisor,
     url |-> OtherUrl("sarah-doe")]

\* the team pages a target's root links to
TeamPages ==
    {OtherPage(OtherUrl("our-team"), <<"Our", " ", "Team">>, <<>>,
               <<Heading(JaneDoe, <<SeniorAdvisor>>, << <<"jane@x.com">> >>, <<>>),
                 Heading(JohnRoe, <<>>, <<>>, <<>>)>>),
     OtherPage(OtherUrl("our-team"), <<"Our", " ", "Team">>, <<>>,
               <<Heading(JaneDoe, <<>>, <<>>, <<>>),
                 Heading(JaneDoe, <<>>, << <<"jane@x.com">> >>, <<>>),
                 Heading(<<"Contact", " ", "Us">>, <<>>, << <<"team@x.com">> >>, <<>>)>>),
     OtherPage(OtherUrl("our-team"), <<"Our", " ", "Team">>, <<LdSarah>>,
               <<Heading(JaneDoe, <<>>, << <<"514-555-9999">> >>, OtherUrl("jane-doe"))>>),
     OtherPage(OtherUrl("our-team"), <<"Our", " ", "Team">>, <<LdSarah>>, <<>>),
     OtherPage(OtherUrl("our-team"), <<"Our", " ", "Team">>, <<>>, <<>>),
     NoLink}

\* the contact pages a target's root links to
ContactPages ==
    {OtherPage(OtherUrl("contact"), <<"Contact", " ", "Us">>, <<>>,
               <<Heading(JaneDoe, << <<"Associate">> >>,
                         << <<"514-555-1234">>, <<"team@x.com">>, MainSt, PostalLine>>,
                         OtherUrl("jane")),
                 Heading(SarahDoe, <<>>, << <<"514-555-9999">> >>, <<>>)>>),
     OtherPage(OtherUrl("contact"), <<"Contact", " ", "Us">>, <<>>,
               <<Heading(<<"jane", " ", "doe">>, << <<"Our", " ", "Team">> >>,
                         << <<"team@x.com">> >>, <<>>),
                 Heading(JohnRoe, << <<"Associate">> >>, << <<"john@x.com">> >>, <<>>)>>),
     OtherPage(OtherUrl("contact"), <<"Contact", " ", "Us">>, <<>>,
               <<Heading(SarahDoe, <<>>, << <<"514-555-1234">> >>, <<>>),
                 Heading(SarahDoe, <<SeniorAdvisor>>, << <<"team@x.com">> >>, <<>>),
                 Heading(JohnRoe, <<>>, <<>>, <<>>)>>),
     OtherPage(OtherUrl("contact"), <<"Contact", " ", "Us">>, <<>>, <<>>),
     NoLink}

\* the root pages of the targets
RootPages ==
    {OtherPage(OtherRoot, <<"Doe", " ", "Group">>, <<>>,
               <<Heading(JohnRoe, <<>>, << <<"john@x.com">> >>, <<>>)>>),
     OtherPage(OtherRoot, <<"Doe", " ", "Group">>, <<>>, <<>>)}

\* a target that is not a TD target, with team_page and contact_page as they
\* are after lines 1340-1363
OtherTargets ==
    [branch_seed_url : {OtherRoot}, team_root_url : {OtherRoot}, td_kind : {""},
     raises : {FALSE}, root : RootPages, team_page : TeamPages, contact_page : ContactPages]

InitOther ==
    /\ mode = "other"
    /\ chosen \in {<<t>> : t \in OtherTargets}
    /\ df_out = <<>>
    /\ drop_no_contact = FALSE
    /\ df_clean = [ran |-> FALSE, rows |-> <<>>]
    /\ ui = "build"
    /\ seeds = <<>> /\ seed_no = 1 /\ dfs = <<>> /\ errors = <<>>
    /\ df_candidates = [set |-> FALSE, rows |-> <<>>]
    /\ edited_candidates = [set |-> FALSE, rows |-> <<>>]
    /\ errs_build = [set |-> FALSE, rows |-> <<>>]
    /\ max_targets = 1
    /\ errs = <<>>
    /\ visited = <<>>
    /\ Idle({"ui", "recon", "build"})

\* lines 1345-1347: a Desjardins root is its own team page and has no contact
\* page
TeamPageOf(t) == IF is_desjardins_url(t.root.final_url) THEN t.root ELSE t.team_page

ContactPageOf(t) == IF is_desjardins_url(t.root.final_url) THEN NoLink ELSE t.contact_page

\* lines 1365-1367: the people of the team page
TeamPeople(t) == IF TeamPageOf(t) = NoLink THEN <<>> ELSE fetch_people(TeamPageOf(t))

\* line 1370: contact_people
ContactPeople(t) ==
    IF ContactPageOf(t) = NoLink THEN <<>> ELSE fetch_people(ContactPageOf(t))

\* lines 1362-1392: people, after the merge and the fallback to the root page
OtherPeople(t) ==
    OrElse(merge_contact(TeamPeople(t), TeamPeople(t), ContactPeople(t)),
           extract_people_from_page(t.root))

\* lines 1394-1427: the rows of the target
OtherRows(t) ==
    IF OtherPeople(t) = <<>>
    THEN << [advisor_name |-> <<>>, advisor_role |-> <<>>, advisor_email |-> <<>>,
             advisor_phone |-> <<>>, advisor_address |-> <<>>,
             advisor_profile_url |-> <<>>, source |-> "no_people_found",
             team_name |-> page_title(t.root),
             team_slug |-> to_team_slug(t.root.final_url)] >>
    ELSE BuildRows(OtherPeople(t), page_title(t.root), to_team_slug(t.root.final_url))

\* lines 1335-1427: the loop body for a target that is not a TD target
build_other ==
    /\ mode = "other"
    /\ chosen # <<>>
    /\ ~is_td_url(Head(chosen).team_root_url)
    /\ df_out' = df_out \o OtherRows(Head(chosen))
    /\ chosen' = Tail(chosen)
    /\ visited' = Append(visited, Head(chosen))
    /\ UNCHANGED <<mode, politeVars, urlVars, fetchVars, textVars, td_page, td_out,
                   drop_no_contact, df_clean, ui, seeds, seed_no, dfs, errors, df_candidates,
                   edited_candidates, errs_build, max_targets, errs>>

NextOther == build_other

SpecOther == InitOther /\ [][NextOther]_vars

\* C27, as the claim states it: the people of a page fetched for a target
\* hold, for every Person object with a name in the page's structured data, a
\* record with that name, its job title as the role and its URL as the
\* profile URL
C27_StructuredDataFirst ==
    (mode = "other" /\ visited # <<>>) =>
        \A page \in {TeamPageOf(visited[1]), ContactPageOf(visited[1])} \ {NoLink} :
           \A i \in 1..Len(page.ld_persons) :
              (page.ld_persons[i].type = "Person" /\ page.ld_persons[i].name # <<>>) =>
                  \E q \in Range(fetch_people(page)) :
                     /\ q.advisor_name = page.ld_persons[i].name
                     /\ q.advisor_role = page.ld_persons[i].jobTitle
                     /\ q.advisor_profile_url = page.ld_persons[i].url

\* the fields the merge of the contact page fills
MergeFields ==
    {"advisor_email", "advisor_phone", "advisor_address", "advisor_role",
     "advisor_profile_url"}

\* the contact-page people whose canonical name no person of the team page has
Unmatched(team_people, contact_people) ==
    SelectSeq(contact_people,
              LAMBDA cp : \A i \in 1..Len(team_people) :
                             canon_name(team_people[i].advisor_name)
                                 # canon_name(cp.advisor_name))

\* the rows of the target keep the order and the names of the team page's
\* people and every field of them that was not empty; a field that changed
\* was empty and has the value of a contact-page person of the same
\* canonical name; the contact-page people with no match follow, unchanged
MergedFrom(rows, team_people, contact_people) ==
    /\ Len(rows) = Len(team_people) + Len(Unmatched(team_people, contact_people))
    /\ \A i \in 1..Len(team_people) :
          /\ rows[i].advisor_name = team_people[i].advisor_name
          /\ \A fld \in MergeFields :
                /\ team_people[i][fld] # <<>> => rows[i][fld] = team_people[i][fld]
                /\ rows[i][fld] # team_people[i][fld] =>
                      \E cp \in Range(contact_people) :
                         /\ canon_name(cp.advisor_name)
                               = canon_name(team_people[i].advisor_name)
                         /\ cp[fld] = rows[i][fld]
    /\ \A j \in 1..Len(Unmatched(team_people, contact_people)) :
          \A fld \in MergeFields \cup {"advisor_name"} :
             rows[Len(team_people) + j][fld]
                 = Unmatched(team_people, contact_people)[j][fld]

\* C28: for a target that is not a TD target and has a team page and a
\* contact page, the merge of the contact page's people leaves every field of
\* a team-page person that was not empty as it was, fills only empty fields,
\* from a contact-page person of the same canonical name, and appends every
\* contact-page person no team-page person matches
C28_MergeKeepsFilled ==
    (/\ mode = "other" /\ visited # <<>>
     /\ TeamPageOf(visited[1]) # NoLink /\ ContactPageOf(visited[1]) # NoLink
     /\ TeamPeople(visited[1]) \o ContactPeople(visited[1]) # <<>>) =>
        MergedFrom(df_out, TeamPeople(visited[1]), ContactPeople(visited[1]))

\* a team-page person had an e-mail and no phone, the contact page has the
\* person with another e-mail and a phone: the row keeps the e-mail and has
\* the phone; a contact-page person with no match was appended
C28_Witness ==
    /\ mode = "other" /\ visited # <<>>
    /\ TeamPageOf(visited[1]) # NoLink /\ ContactPageOf(visited[1]) # NoLink
    /\ \E i \in 1..Len(TeamPeople(visited[1])) :
          \E cp \in Range(ContactPeople(visited[1])) :
             /\ canon_name(cp.advisor_name)
                   = canon_name(TeamPeople(visited[1])[i].advisor_name)
             /\ TeamPeople(visited[1])[i].advisor_email # <<>>
             /\ cp.advisor_email \notin {<<>>, TeamPeople(visited[1])[i].advisor_email}
             /\ df_out[i].advisor_email = TeamPeople(visited[1])[i].advisor_email
             /\ TeamPeople(visited[1])[i].advisor_phone = <<>>
             /\ df_out[i].advisor_phone = cp.advisor_phone
             /\ cp.advisor_phone # <<>>
    /\ Len(df_out) > Len(TeamPeople(visited[1]))

====
